---- MODULE Spec2Model ----
(***************************************************************************)
(* Project Dark Star: command interpretation, doors, security panels and   *)
(* the player's inventory.                                                 *)
(*                                                                         *)
(* Text is modelled after whitespace splitting: a string is the sequence   *)
(* of its words, so "cargo bay" is <<"cargo", "bay">> and "" is << >>.     *)
(* The world model is read by the code both in record form (door_status    *)
(* entries, security_panels) and in object form (Door, SecurityPanel);     *)
(* both forms denote the same doors and panels, which the model keeps      *)
(* once: locked[d], security_level[d], is_broken[<<d, room>>].             *)
(***************************************************************************)
EXTENDS Integers, Sequences, FiniteSets, TLC

VARIABLES
    current_location,      \* GameManager.current_location (room id)
    inventory,             \* GameManager.player["inventory"]: list of item ids
    player_carry_mass,     \* GameManager.player_carry_mass
    objects,               \* Room.objects: room -> list of item ids
    locked,                \* Door.locked / door_status[..]["locked"]
    security_level,        \* SecurityPanel.security_level (the door's)
    is_broken,             \* SecurityPanel.is_broken, by <<door, side>>
    repair_progress,       \* SecurityPanel.repair_progress, by <<door, side>>, in quarters
    scheduled,             \* continuations given to schedule_delayed_action
    last_panel,            \* ShipView.last_panel (last_door is its door)
    pin_attempts,          \* ShipView.pin_attempts, -1 when the attribute is absent
    pin_max_attempts,      \* ShipView.pin_max_attempts, -1 when absent
    pending_pin_callback,  \* ShipView.pending_pin_callback
    response_text,         \* the kind of message last returned or shown
    raised,                \* an exception left a handler
    cargo_by_room,         \* GameManager.ship["cargo_by_room"]: room -> list of item ids
    instance,              \* which instance each entry of Room.objects is
    flavour,               \* the text random.choice picked in the last step (0: none picked)
    player,                \* a Player: its _inventory and equipped slots
    unit,                  \* a StorageUnit: contents, current_mass, capacity_mass
    parse,                 \* process's verb lookup: the line, the table, the outcome
    load,                  \* a run of Ship.load_from_json: the connection records, the doors
    room_exits,            \* Room.exits of the starting room when not those of the world data
    chrono                 \* a Chronometer: total_minutes, with the date it was set from

(***************************************************************************)
(* Bounds of the model.                                                    *)
(***************************************************************************)
\* Most swipe continuations that may be scheduled and not yet fired.
MaxScheduled == 1
\* Most repair confirmations that may be scheduled and not yet fired.
MaxRepairs == 1
\* Most panels that are broken at a time.
MaxBroken == 1

(***************************************************************************)
(* World data (data/ship_rooms.json, data/door_status.json,                *)
(* data/objects.json are loaded at start-up; this is a small ship with     *)
(* the same shape).                                                        *)
(***************************************************************************)
Rooms == {"quarters", "corridor", "cargo bay"}

STARTING_ROOM == "quarters"

Doors == {"d1", "d2"}

\* door_status "rooms" / Door.rooms
DoorRooms(d) == IF d = "d1" THEN {"quarters", "corridor"} ELSE {"corridor", "cargo bay"}

\* door_status "panel_ids" sides / Door.panels keys: d1 has its panel in the
\* quarters and none in the corridor, d2 has its panel in the corridor and
\* none in the cargo bay
Panels == {<<"d1", "quarters">>, <<"d2", "corridor">>}

NoDoor == "none"
NoPanel == <<"none", "none">>
NoWords == << >>

\* Room.exits of the world data, in dictionary order.  door = NoDoor is an
\* archway.
WorldExits(room) ==
    CASE room = "quarters" ->
           << [key |-> <<"corridor">>, target |-> "corridor", label |-> <<"corridor">>,
               direction |-> <<"fore">>, shortcuts |-> {<<"hall">>}, door |-> "d1"],
              [key |-> <<"cargo", "bay">>, target |-> "cargo bay", label |-> <<"cargo", "bay">>,
               direction |-> NoWords, shortcuts |-> {<<"ladder">>}, door |-> NoDoor] >>
      [] room = "corridor" ->
           << [key |-> <<"quarters">>, target |-> "quarters", label |-> <<"quarters">>,
               direction |-> <<"aft">>, shortcuts |-> {<<"cabin">>}, door |-> "d1"],
              [key |-> <<"cargo", "bay">>, target |-> "cargo bay", label |-> <<"cargo", "bay">>,
               direction |-> <<"fore">>, shortcuts |-> {<<"cargo">>, <<"bay">>}, door |-> "d2"] >>
      [] OTHER ->
           << [key |-> <<"corridor">>, target |-> "corridor", label |-> <<"corridor">>,
               direction |-> <<"aft">>, shortcuts |-> {<<"hall">>}, door |-> "d2"],
              [key |-> <<"quarters">>, target |-> "quarters", label |-> <<"quarters">>,
               direction |-> NoWords, shortcuts |-> {<<"ladder">>}, door |-> NoDoor] >>

\* The starting room has the exits of the world data
NoExits == << >>

\* Room.exits, in dictionary order
Exits(room) ==
    IF room = STARTING_ROOM /\ room_exits # NoExits THEN room_exits ELSE WorldExits(room)

\* No Chronometer has been made
NoChrono ==
    [set |-> FALSE, start |-> <<0, 1, 1, 0, 0>>, total_minutes |-> 0, advanced |-> 0, calls |-> 0]

\* Door.pin
DoorPin(d) == IF d = "d1" THEN <<"1234">> ELSE <<"4321">>

\* Item registry (GameManager.items)
Cards == {"id_card_low_sec", "id_card_high_sec", "id_card_high_sec_damaged"}
Items ==
    Cards \cup {"toolkit", "crate", "terminal", "eva_suit", "jumpsuit", "mag_boots", "flask"}

\* "type" of an item's data: portable items become PortableItem, the others
\* FixedObject
ItemType(id) == IF id = "terminal" THEN "fixed" ELSE "portable"

ItemName(id) ==
    CASE id = "id_card_low_sec" -> <<"low", "card">>
      [] id = "id_card_high_sec" -> <<"high", "card">>
      [] id = "id_card_high_sec_damaged" -> <<"damaged", "card">>
      [] id = "eva_suit" -> <<"eva", "suit">>
      [] id = "mag_boots" -> <<"mag", "boots">>
      [] OTHER -> <<id>>

ItemKeywords(id) == IF id \in Cards THEN {ItemName(id), <<"card">>} ELSE {ItemName(id)}

\* mass in tenths of a kilogram
ItemMass(id) ==
    CASE id \in Cards -> 1
      [] id \in {"toolkit", "eva_suit"} -> 60
      [] id = "mag_boots" -> 10
      [] id = "flask" -> 20
      [] id = "jumpsuit" -> 40
      [] OTHER -> 50

\* PortableItem.equip_slot ("": the item has none)
EquipSlot(id) ==
    CASE id \in {"eva_suit", "jumpsuit"} -> "body"
      [] id = "mag_boots" -> "feet"
      [] OTHER -> ""

\* The rooms with a cargo list (ship["cargo_by_room"])
StorageRooms == {"storage room", "cargo bay"}

\* game_manager.py:25, in tenths of a kilogram
player_max_carry_mass == 100

SecurityLevels == 0 .. 3
NONE == 0
LOW_SEC_KEYCARD_ONLY == 1
HIGH_SEC_KEYCARD_ONLY == 2
HIGH_SEC_KEYCARD_PIN == 3

vars == <<current_location, inventory, player_carry_mass, objects, locked,
          security_level, is_broken, repair_progress, scheduled, last_panel, pin_attempts,
          pin_max_attempts, pending_pin_callback, response_text, raised,
          cargo_by_room, instance, flavour, player, unit, parse, load,
          room_exits, chrono>>

\* The objects the commands, the door handler and the continuations do not
\* touch
classVars == <<player, unit, parse, load, room_exits, chrono>>

\* A step that moves no item to or from a cargo list or a room and picks no
\* text at random
NoItemMoved == flavour' = 0 /\ UNCHANGED <<cargo_by_room, instance>>

NoAttr == -1
NoCallback == [action |-> "none", door |-> NoDoor]

(***************************************************************************)
(* List helpers (Python list semantics).                                   *)
(***************************************************************************)
InList(x, list) == \E i \in 1 .. Len(list) : list[i] = x

\* list.remove(x): the first occurrence goes
ListRemove(list, x) ==
    LET i == CHOOSE k \in 1 .. Len(list) :
                 list[k] = x /\ \A j \in 1 .. k - 1 : list[j] # x
    IN  SubSeq(list, 1, i - 1) \o SubSeq(list, i + 1, Len(list))

(***************************************************************************)
(* models/security_panel.py                                                *)
(***************************************************************************)
\* What a credential check hands back.  returned = FALSE is the method
\* falling off its end (Python's None), which the caller cannot unpack.
Result(ok, msg) == [returned |-> TRUE, success |-> ok, message |-> msg]
NoResult == [returned |-> FALSE, success |-> FALSE, message |-> "None"]

NoPinInput == << >>

HasAnyCard(inv) == InList("id_card_low_sec", inv) \/ InList("id_card_high_sec", inv)

RequiredKeycard(level) ==
    level \in {LOW_SEC_KEYCARD_ONLY, HIGH_SEC_KEYCARD_ONLY, HIGH_SEC_KEYCARD_PIN}

\* attempt_unlock without its first check: a damaged panel still reads cards
attempt_unlock_ignoring_damage(panel, inv, pin_input) ==
    LET level == security_level[panel[1]] IN
    IF RequiredKeycard(level) /\ ~HasAnyCard(inv) THEN Result(FALSE, "need id card")
    ELSE IF level = HIGH_SEC_KEYCARD_PIN /\ pin_input # <<"1234">>
         THEN Result(FALSE, "incorrect pin")
    ELSE IF level = LOW_SEC_KEYCARD_ONLY THEN Result(TRUE, "access granted")
    ELSE IF level = HIGH_SEC_KEYCARD_ONLY
         THEN IF InList("id_card_high_sec", inv)
              THEN Result(TRUE, "access granted")
              ELSE Result(FALSE, "incorrect card")
    ELSE NoResult

\* SecurityPanel.attempt_unlock(player_inventory, pin_input)
attempt_unlock(panel, inv, pin_input) ==
    LET level == security_level[panel[1]] IN
    IF is_broken[panel] THEN Result(FALSE, "panel damaged")
    ELSE IF RequiredKeycard(level) /\ ~HasAnyCard(inv) THEN Result(FALSE, "need id card")
    ELSE IF level = HIGH_SEC_KEYCARD_PIN /\ pin_input # <<"1234">>
         THEN Result(FALSE, "incorrect pin")
    ELSE IF level = LOW_SEC_KEYCARD_ONLY THEN Result(TRUE, "access granted")
    ELSE IF level = HIGH_SEC_KEYCARD_ONLY
         THEN IF InList("id_card_high_sec", inv)
              THEN Result(TRUE, "access granted")
              ELSE Result(FALSE, "incorrect card")
    ELSE NoResult

\* SecurityPanel.attempt_lock(player_inventory)
attempt_lock(panel, inv) ==
    LET level == security_level[panel[1]] IN
    IF is_broken[panel] THEN Result(FALSE, "panel damaged")
    ELSE IF RequiredKeycard(level) /\ ~HasAnyCard(inv) THEN Result(FALSE, "need id card")
    ELSE IF level = LOW_SEC_KEYCARD_ONLY THEN Result(TRUE, "access granted")
    ELSE IF level = HIGH_SEC_KEYCARD_ONLY
         THEN IF InList("id_card_high_sec", inv)
              THEN Result(TRUE, "access granted")
              ELSE Result(FALSE, "incorrect card")
    ELSE NoResult

\* SecurityPanel.attempt_pin(pin, player_inventory): the line is compared
\* with the PIN of the panel's door.
attempt_pin(panel, pin, inv) ==
    IF pin = DoorPin(panel[1]) THEN Result(TRUE, "pin accepted")
    ELSE Result(FALSE, "incorrect pin")

(***************************************************************************)
(* game_manager.py: inventory helpers                                      *)
(***************************************************************************)
CanAddToInventoryAnyMass(item, mass) ==
    item \in Items /\ ItemType(item) = "portable"

\* GameManager.add_to_inventory: whether the item is accepted
CanAddToInventory(item, mass) ==
    /\ item \in Items /\ ItemType(item) = "portable"
    /\ mass + ItemMass(item) <= player_max_carry_mass

\* GameManager.remove_from_inventory / add_to_inventory, as list and mass
InventoryAfterRemove(inv, item) == IF InList(item, inv) THEN ListRemove(inv, item) ELSE inv
MassAfterRemove(inv, mass, item) == IF InList(item, inv) THEN mass - ItemMass(item) ELSE mass
InventoryAfterAdd(inv, mass, item) == IF CanAddToInventory(item, mass) THEN Append(inv, item) ELSE inv
MassAfterAdd(mass, item) == IF CanAddToInventory(item, mass) THEN mass + ItemMass(item) ELSE mass

(***************************************************************************)
(* door_handler.py                                                         *)
(***************************************************************************)
Min(S) == CHOOSE i \in S : \A j \in S : i <= j

\* DoorHandler._matches_exit(target, exit_data)
MatchesExit(target, ed) ==
    /\ target # NoWords
    /\ \/ target = ed.label
       \/ ed.direction # NoWords /\ target = ed.direction
       \/ target \in ed.shortcuts

Found(d, err) == [door |-> d, error |-> err]

\* Door.get_panel_for_room(room) is not None
HasPanel(d, room) == <<d, room>> \in DOMAIN is_broken

\* DoorHandler._find_door_and_panel(args, current_room_id, action)
FindDoorAndPanel(args, room, action) ==
    LET exits == Exits(room)
        secured == {i \in 1 .. Len(exits) : exits[i].door # NoDoor}
        matching == {i \in 1 .. Len(exits) : MatchesExit(args, exits[i])}
    IN  IF args = NoWords
        THEN IF Cardinality(secured) = 1 /\ HasPanel(exits[Min(secured)].door, room)
             THEN Found(exits[Min(secured)].door, "")
             ELSE Found(NoDoor, "which door")
        ELSE IF matching = {} THEN Found(NoDoor, "no such exit")
        ELSE IF exits[Min(matching)].door = NoDoor
             THEN Found(NoDoor, IF action = "unlock" THEN "archway: nothing to unlock"
                                                     ELSE "archway: it has no lock")
        ELSE IF HasPanel(exits[Min(matching)].door, room)
             THEN Found(exits[Min(matching)].door, "")
             ELSE Found(NoDoor, "no access panel")

Swipe(action, panel) == [kind |-> "swipe", action |-> action, panel |-> panel]

\* How many continuations of a kind are scheduled and not yet fired
Pending(kind) == Cardinality({i \in 1 .. Len(scheduled) : scheduled[i].kind = kind})

\* handle_door_action without the damage check of lines 50-54
DoorActionResponseIgnoringDamage(action, args) ==
    LET f == FindDoorAndPanel(args, current_location, action)
    IN  IF f.error # "" THEN f.error
        ELSE IF (action = "unlock" /\ ~locked[f.door]) \/ (action = "lock" /\ locked[f.door])
             THEN "already in that state"
        ELSE IF ~HasPanel(f.door, current_location) THEN "no access panel"
        ELSE IF ~HasAnyCard(inventory) THEN "need id card"
        ELSE "swiping"

\* What handle_door_action answers: an error text, or "swiping" when the
\* swipe is accepted and its continuation scheduled.
DoorActionResponse(action, args) ==
    LET f == FindDoorAndPanel(args, current_location, action)
        panel == <<f.door, current_location>>
    IN  IF f.error # "" THEN f.error
        ELSE IF (action = "unlock" /\ ~locked[f.door]) \/ (action = "lock" /\ locked[f.door])
             THEN "already in that state"
        ELSE IF ~HasPanel(f.door, current_location) THEN "no access panel"
        ELSE IF is_broken[panel] THEN "panel damaged, repair it"
        ELSE IF ~HasAnyCard(inventory) THEN "need id card"
        ELSE "swiping"

\* DoorHandler.handle_door_action(action, args)
HandleDoorAction(action, args) ==
    LET f == FindDoorAndPanel(args, current_location, action)
        answer == DoorActionResponse(action, args)
    IN  /\ ~raised
        /\ answer = "swiping" => Pending("swipe") < MaxScheduled
        /\ response_text' = IF answer = "swiping" THEN "swiping" ELSE "not swiped"
        /\ scheduled' = IF answer = "swiping"
                        THEN Append(scheduled, Swipe(action, <<f.door, current_location>>))
                        ELSE scheduled
        /\ UNCHANGED <<current_location, inventory, player_carry_mass, objects, locked,
                       security_level, is_broken, repair_progress, last_panel, pin_attempts,
                       pin_max_attempts, pending_pin_callback, raised>>
        /\ NoItemMoved
        /\ UNCHANGED classVars

\* A card check that accepts the high security card at a door of the PIN level
AttemptCardOnly(action, panel, inv) ==
    IF /\ security_level[panel[1]] = HIGH_SEC_KEYCARD_PIN
       /\ ~is_broken[panel]
       /\ InList("id_card_high_sec", inv)
    THEN Result(TRUE, "access granted")
    ELSE IF action = "unlock" THEN attempt_unlock(panel, inv, NoPinInput)
    ELSE attempt_lock(panel, inv)

\* A card check that also wants the player to stand at the panel
AttemptWhereThePlayerIs(action, panel, inv) ==
    IF current_location # panel[2] THEN Result(FALSE, "not at the panel")
    ELSE IF action = "unlock" THEN attempt_unlock(panel, inv, NoPinInput)
    ELSE attempt_lock(panel, inv)

\* attempt_method(inventory) in on_delay_complete
Attempt(action, panel, inv) ==
    IF action = "unlock" THEN attempt_unlock(panel, inv, NoPinInput)
    ELSE attempt_lock(panel, inv)

\* The swipe continuation enters the PIN sub-state at this level
\* (the door handler's SecurityLevel.KEYCARD_HIGH_PIN).
KEYCARD_HIGH_PIN == HIGH_SEC_KEYCARD_PIN

\* on_delay_complete of handle_door_action, for the swipe c
OnDelayComplete(c) ==
    LET door == c.panel[1]
        r == Attempt(c.action, c.panel, inventory)
    IN  /\ last_panel' = c.panel
        /\ IF ~r.returned
           THEN /\ raised' = TRUE
                /\ UNCHANGED <<locked, pin_attempts, pin_max_attempts,
                               pending_pin_callback, response_text>>
           ELSE IF r.success
           THEN IF security_level[door] = KEYCARD_HIGH_PIN
                THEN /\ pin_attempts' = 0
                     /\ pin_max_attempts' = 3
                     /\ pending_pin_callback' = [action |-> c.action, door |-> door]
                     /\ response_text' = "enter pin"
                     /\ UNCHANGED <<locked, raised>>
                ELSE /\ locked' = [locked EXCEPT ![door] = (c.action = "lock")]
                     /\ response_text' = "id accepted"
                     /\ UNCHANGED <<pin_attempts, pin_max_attempts,
                                    pending_pin_callback, raised>>
           ELSE /\ response_text' = "swipe denied"
                /\ UNCHANGED <<locked, pin_attempts, pin_max_attempts,
                               pending_pin_callback, raised>>
        /\ UNCHANGED <<current_location, inventory, player_carry_mass, objects,
                       security_level, is_broken, repair_progress>>
        /\ NoItemMoved
        /\ UNCHANGED classVars

\* A cleanup that forgets the armed continuation
PinStateKept ==
    /\ pin_attempts' = NoAttr
    /\ pin_max_attempts' = NoAttr
    /\ pending_pin_callback' = pending_pin_callback

\* DoorHandler._cleanup_pin_state leaves these behind
PinStateCleared ==
    /\ pin_attempts' = NoAttr
    /\ pin_max_attempts' = NoAttr
    /\ pending_pin_callback' = NoCallback

\* A lockout that takes the card and hands nothing back
InventoryAfterLockoutNoDamaged(inv, mass) ==
    InventoryAfterRemove(inv, "id_card_high_sec")

\* The lockout branch of _handle_pin_input on the inventory: one high
\* security card goes, a damaged one is added.
InventoryAfterLockout(inv, mass) ==
    IF InList("id_card_high_sec", inv)
    THEN InventoryAfterAdd(InventoryAfterRemove(inv, "id_card_high_sec"),
                           MassAfterRemove(inv, mass, "id_card_high_sec"),
                           "id_card_high_sec_damaged")
    ELSE inv

MassAfterLockout(inv, mass) ==
    IF InList("id_card_high_sec", inv)
    THEN MassAfterAdd(MassAfterRemove(inv, mass, "id_card_high_sec"),
                      "id_card_high_sec_damaged")
    ELSE mass

\* attempts_left counted from the attempts before the increment
AttemptsLeftOffByOne(max, attempts) == max - attempts + 1

\* attempts_left in _handle_pin_input, after the increment
AttemptsLeft(max, attempts) == max - attempts

\* DoorHandler._handle_pin_input(pin, action, matching_door, ...): the armed
\* continuation called with a line
HandlePinInput(pin) ==
    LET cb == pending_pin_callback
        r == attempt_pin(last_panel, pin, inventory)
    IN  /\ ~raised
        /\ cb # NoCallback
        /\ IF r.success
           THEN \* _finish_unlock_with_pin / _finish_lock_with_pin, then cleanup
                /\ locked' = [locked EXCEPT ![cb.door] = (cb.action = "lock")]
                /\ response_text' = "pin accepted"
                /\ PinStateCleared
                /\ UNCHANGED <<inventory, player_carry_mass>>
           ELSE IF AttemptsLeft(pin_max_attempts, pin_attempts + 1) > 0
           THEN /\ pin_attempts' = pin_attempts + 1
                /\ response_text' = "pin retry"
                /\ pending_pin_callback' = cb
                /\ UNCHANGED <<locked, pin_max_attempts, inventory, player_carry_mass>>
           ELSE /\ response_text' = "lockout"
                /\ inventory' = InventoryAfterLockout(inventory, player_carry_mass)
                /\ player_carry_mass' = MassAfterLockout(inventory, player_carry_mass)
                /\ PinStateCleared
                /\ UNCHANGED locked
        /\ UNCHANGED <<current_location, objects, security_level, is_broken, repair_progress,
                       scheduled, last_panel, raised>>
        /\ NoItemMoved
        /\ UNCHANGED classVars

\* repair_progress 1.0: progress is kept in quarters, which float addition
\* sums exactly
FULL_PROGRESS == 4

\* SecurityPanel.repair: repair_progress after repair(amount), without the cap
ProgressAfterRepairUncapped(progress, amount) == progress + amount

\* SecurityPanel.repair: repair_progress after repair(amount)
ProgressAfterRepair(progress, amount) ==
    IF progress + amount >= FULL_PROGRESS THEN FULL_PROGRESS ELSE progress + amount

\* SecurityPanel.repair(amount)
PanelRepair(panel, amount) ==
    /\ ~raised
    /\ repair_progress' = [repair_progress EXCEPT
                              ![panel] = ProgressAfterRepair(repair_progress[panel], amount)]
    /\ is_broken' = [is_broken EXCEPT
                        ![panel] = IF repair_progress[panel] + amount >= FULL_PROGRESS
                                   THEN FALSE ELSE is_broken[panel]]
    /\ UNCHANGED <<current_location, inventory, player_carry_mass, objects, locked,
                   security_level, scheduled, last_panel, pin_attempts,
                   pin_max_attempts, pending_pin_callback, response_text, raised>>
    /\ NoItemMoved
    /\ UNCHANGED classVars

(***************************************************************************)
(* models/security_panel.py: damage                                        *)
(***************************************************************************)
\* SecurityPanel.damage()
Damage(panel) ==
    /\ ~raised
    /\ ~is_broken[panel]
    /\ Cardinality({p \in DOMAIN is_broken : is_broken[p]}) < MaxBroken
    /\ is_broken' = [is_broken EXCEPT ![panel] = TRUE]
    /\ repair_progress' = [repair_progress EXCEPT ![panel] = 0]
    /\ UNCHANGED <<current_location, inventory, player_carry_mass, objects, locked,
                   security_level, scheduled, last_panel, pin_attempts,
                   pin_max_attempts, pending_pin_callback, response_text, raised>>
    /\ NoItemMoved
    /\ UNCHANGED classVars

(***************************************************************************)
(* repair_handler.py                                                       *)
(***************************************************************************)
\* game_manager.door_status, in file order
DoorOrder == <<"d1", "d2">>

\* A room's identifier as the words of a line
RoomWords(room) == IF room = "cargo bay" THEN <<"cargo", "bay">> ELSE <<room>>

\* next(r for r in door["rooms"] if r != current_room_id)
OtherRoom(d, room) == CHOOSE r \in DoorRooms(d) : r # room

\* RepairHandler._matches_exit(target, door, current_room_id)
RepairMatchesExit(target, d, room) ==
    LET other == OtherRoom(d, room)
        exits == Exits(room)
    IN  \/ target = RoomWords(other)
        \/ \E i \in 1 .. Len(exits) :
              /\ exits[i].target = other
              /\ target = exits[i].key \/ target \in exits[i].shortcuts

\* broken_panels of handle_repair_door_panel: the doors, in file order, with
\* a broken panel on the side of the room
BrokenPanels(room) ==
    SelectSeq(DoorOrder, LAMBDA d : /\ room \in DoorRooms(d)
                                    /\ HasPanel(d, room)
                                    /\ is_broken[<<d, room>>])

Repair(panel) == [kind |-> "repair", action |-> "repair", panel |-> panel]

\* A repair that leaves the panel's flag to the deferred confirmation
PerformRepairDeferred(panel) ==
    /\ Pending("repair") < MaxRepairs
    /\ UNCHANGED <<is_broken, repair_progress>>
    /\ scheduled' = Append(scheduled, Repair(panel))
    /\ response_text' = "repairing"

\* A repair that mends the panels on both sides of the door
PerformRepairBothSides(panel) ==
    /\ Pending("repair") < MaxRepairs
    /\ is_broken' = [p \in DOMAIN is_broken |-> IF p[1] = panel[1] THEN FALSE ELSE is_broken[p]]
    /\ repair_progress' = [p \in DOMAIN is_broken |->
                              IF p[1] = panel[1] THEN FULL_PROGRESS ELSE repair_progress[p]]
    /\ scheduled' = Append(scheduled, Repair(panel))
    /\ response_text' = "repairing"

\* RepairHandler._perform_repair(panel, exit_label, matching_door)
PerformRepair(panel) ==
    /\ Pending("repair") < MaxRepairs
    /\ is_broken' = [is_broken EXCEPT ![panel] = FALSE]
    /\ repair_progress' = [repair_progress EXCEPT ![panel] = FULL_PROGRESS]
    /\ scheduled' = Append(scheduled, Repair(panel))
    /\ response_text' = "repairing"

\* A return of handle_repair_door_panel that repairs nothing
NoRepair(text) ==
    /\ response_text' = text
    /\ UNCHANGED <<is_broken, repair_progress, scheduled>>

\* A choice of panel that takes the first broken one whatever the target
RepairTargetFirst(broken, args, room) == 1

\* The broken panel the target of handle_repair_door_panel names (0: none)
RepairTarget(broken, args, room) ==
    LET hits == {i \in 1 .. Len(broken) : RepairMatchesExit(args, broken[i], room)}
    IN  IF hits = {} THEN 0 ELSE Min(hits)

\* RepairHandler.handle_repair_door_panel(args)
HandleRepairDoorPanel(args) ==
    LET room == current_location
        broken == BrokenPanels(room)
        hit == RepairTarget(broken, args, room)
    IN  /\ ~raised
        /\ IF broken = << >> THEN NoRepair("no damaged panels")
           ELSE IF Len(broken) = 1 /\ args = NoWords
           THEN PerformRepair(<<broken[1], room>>)
           ELSE IF args # NoWords
           THEN IF hit # 0 THEN PerformRepair(<<broken[hit], room>>)
                ELSE NoRepair("no damaged panel to that exit")
           ELSE NoRepair("which panel")
        /\ UNCHANGED <<current_location, inventory, player_carry_mass, objects, locked,
                       security_level, last_panel, pin_attempts, pin_max_attempts,
                       pending_pin_callback, raised>>
        /\ NoItemMoved
        /\ UNCHANGED classVars

\* on_repair_complete of _perform_repair: the confirmation is shown
OnRepairComplete(c) ==
    /\ response_text' = "repaired"
    /\ UNCHANGED <<current_location, inventory, player_carry_mass, objects, locked,
                   security_level, is_broken, repair_progress, last_panel, pin_attempts,
                   pin_max_attempts, pending_pin_callback, raised>>
    /\ NoItemMoved
    /\ UNCHANGED classVars

(***************************************************************************)
(* The scheduler behind schedule_delayed_action: every continuation fires  *)
(* once, after its delay.                                                  *)
(***************************************************************************)
Delay(c) == IF c.kind = "swipe" THEN 5 ELSE 8

\* c = scheduled[i] can be the next to fire: nothing scheduled before it is
\* due sooner or at the same time
MayFire(i) == \A j \in 1 .. i - 1 : Delay(scheduled[j]) > Delay(scheduled[i])

FireDelayed(i) ==
    /\ ~raised
    /\ i \in 1 .. Len(scheduled)
    /\ MayFire(i)
    /\ scheduled' = SubSeq(scheduled, 1, i - 1) \o SubSeq(scheduled, i + 1, Len(scheduled))
    /\ IF scheduled[i].kind = "swipe" THEN OnDelayComplete(scheduled[i])
                                      ELSE OnRepairComplete(scheduled[i])

(***************************************************************************)
(* command_processor.py                                                    *)
(***************************************************************************)
\* str.lower(), on the words the input lines are made of
Lower(w) ==
    CASE w = "GO" -> "go"
      [] w = "Corridor" -> "corridor"
      [] OTHER -> w

\* cmd.strip().lower().split()
Words(line) == [i \in 1 .. Len(line) |-> Lower(line[i])]

\* CommandProcessor.commands: verb -> handler
Commands(verb) ==
    CASE verb \in {<<"quit">>, <<"exit">>} -> "quit"
      [] verb \in {<<"go">>, <<"enter">>, <<"move">>} -> "move"
      [] verb \in {<<"inventory">>, <<"i">>} -> "inventory"
      [] verb \in {<<"take">>, <<"pick", "up">>} -> "take"
      [] verb = <<"store">> -> "store"
      [] verb = <<"cargo">> -> "cargo"
      [] verb = <<"debug", "cargo">> -> "debug cargo"
      [] verb \in {<<"examine">>, <<"x">>} -> "examine"
      [] verb = <<"drop">> -> "drop"
      [] verb = <<"retrieve">> -> "retrieve"
      [] verb = <<"lock">> -> "lock"
      [] verb = <<"unlock">> -> "unlock"
      [] OTHER -> "unknown"

\* The keys of CommandProcessor.commands
VerbTable ==
    { <<"quit">>, <<"exit">>, <<"go">>, <<"enter">>, <<"move">>, <<"inventory">>, <<"i">>,
      <<"take">>, <<"pick", "up">>, <<"store">>, <<"cargo">>, <<"debug", "cargo">>,
      <<"examine">>, <<"x">>, <<"drop">>, <<"retrieve">>, <<"lock">>, <<"unlock">> }

\* The verb process picks when self.commands has the keys of table: the first
\* two words when they are a key, else the first word.
VerbLengthIn(table, words) ==
    IF Len(words) >= 2 /\ SubSeq(words, 1, 2) \in table THEN 2 ELSE 1

VerbLength(words) == VerbLengthIn(VerbTable, words)

ProcessVerb(words) == SubSeq(words, 1, VerbLength(words))
ProcessArgs(words) == SubSeq(words, VerbLength(words) + 1, Len(words))

\* _handle_move: one leading "to the ", "to " or "the " is dropped
StripPrefix(args) ==
    IF Len(args) >= 3 /\ args[1] = "to" /\ args[2] = "the" THEN SubSeq(args, 3, Len(args))
    ELSE IF Len(args) >= 2 /\ args[1] = "to" THEN Tail(args)
    ELSE IF Len(args) >= 2 /\ args[1] = "the" THEN Tail(args)
    ELSE args

\* The exit found when the loop over the exits keeps the last match
MoveExitLastMatch(room, dest) ==
    LET exits == Exits(room)
        byKey == {i \in 1 .. Len(exits) : exits[i].key = dest}
        byAlias == {i \in 1 .. Len(exits) :
                       \/ exits[i].direction # NoWords /\ dest = exits[i].direction
                       \/ dest \in exits[i].shortcuts}
    IN  IF byKey # {} THEN Min(byKey)
        ELSE IF byAlias # {} THEN CHOOSE i \in byAlias : \A j \in byAlias : j <= i
        ELSE 0

\* _handle_move: the exit the destination resolves to (0: none)
MoveExit(room, dest) ==
    LET exits == Exits(room)
        byKey == {i \in 1 .. Len(exits) : exits[i].key = dest}
        byAlias == {i \in 1 .. Len(exits) :
                       \/ exits[i].direction # NoWords /\ dest = exits[i].direction
                       \/ dest \in exits[i].shortcuts}
    IN  IF byKey # {} THEN Min(byKey)
        ELSE IF byAlias # {} THEN Min(byAlias)
        ELSE 0

\* The door_status entries joining two rooms
DoorsBetween(a, b) == {d \in Doors : DoorRooms(d) = {a, b}}

\* A door check that only looks at doors with a panel on the side of the room
MoveBlockedFromPanelSide(room, next) ==
    \E d \in DoorsBetween(room, next) : locked[d] /\ <<d, room>> \in DOMAIN is_broken

\* The door check with its test of the locked flag inverted
MoveBlockedInverted(room, next) == \E d \in DoorsBetween(room, next) : ~locked[d]

\* _handle_move: the door check refuses the move
MoveBlocked(room, next) == \E d \in DoorsBetween(room, next) : locked[d]

\* CommandProcessor._handle_move(args)
HandleMove(args) ==
    LET dest == StripPrefix(args)
        e == MoveExit(current_location, dest)
        next == Exits(current_location)[e].target
    IN  /\ IF dest = NoWords
           THEN response_text' = "refused" /\ UNCHANGED current_location
           ELSE IF e = 0
           THEN response_text' = "refused" /\ UNCHANGED current_location
           ELSE IF MoveBlocked(current_location, next)
           THEN response_text' = "door locked" /\ UNCHANGED current_location
           ELSE response_text' = "moved" /\ current_location' = next
        /\ UNCHANGED <<inventory, player_carry_mass, objects, locked, security_level,
                       is_broken, repair_progress, scheduled, last_panel, pin_attempts,
                       pin_max_attempts, pending_pin_callback, raised>>
        /\ NoItemMoved

\* Interactable.matches(input): the input is one of the keywords
Matches(item, target) == target \in ItemKeywords(item)

RemoveAt(list, i) == SubSeq(list, 1, i - 1) \o SubSeq(list, i + 1, Len(list))

\* random.choice over a list of n texts
RandomChoice(n) == 1 .. n

\* What no inventory command changes
NoWorldChange ==
    UNCHANGED <<current_location, locked, security_level, is_broken, repair_progress, scheduled,
                last_panel, pin_attempts, pin_max_attempts, pending_pin_callback>>

RefuseEmptyingRoom(text) ==
    /\ response_text' = text
    /\ flavour' = 0
    /\ objects' = [objects EXCEPT ![current_location] = << >>]
    /\ instance' = [instance EXCEPT ![current_location] = << >>]
    /\ UNCHANGED <<inventory, player_carry_mass, cargo_by_room, raised>>

\* A command that answers with a fixed text and moves nothing
Refuse(text) ==
    /\ response_text' = text
    /\ flavour' = 0
    /\ UNCHANGED <<inventory, player_carry_mass, objects, instance, cargo_by_room, raised>>

TakeSuccessByLuck(i, k) ==
    LET here == objects[current_location] IN
    /\ inventory' = InventoryAfterAdd(inventory, player_carry_mass, here[i])
    /\ player_carry_mass' = MassAfterAdd(player_carry_mass, here[i])
    /\ objects' = IF k = 1 THEN objects
                  ELSE [objects EXCEPT ![current_location] = RemoveAt(here, i)]
    /\ instance' = IF k = 1 THEN instance
                   ELSE [instance EXCEPT ![current_location] = RemoveAt(@, i)]
    /\ response_text' = "taken"
    /\ flavour' = k
    /\ UNCHANGED <<cargo_by_room, raised>>

\* _handle_take when add_to_inventory accepted the i-th object of the room:
\* the object leaves the room and text k of success_messages is returned
TakeSuccess(i, k) ==
    LET here == objects[current_location] IN
    /\ inventory' = InventoryAfterAdd(inventory, player_carry_mass, here[i])
    /\ player_carry_mass' = MassAfterAdd(player_carry_mass, here[i])
    /\ objects' = [objects EXCEPT ![current_location] = RemoveAt(here, i)]
    /\ instance' = [instance EXCEPT ![current_location] = RemoveAt(@, i)]
    /\ response_text' = "taken"
    /\ flavour' = k
    /\ UNCHANGED <<cargo_by_room, raised>>

\* CommandProcessor._handle_take(args)
HandleTake(args) ==
    LET here == objects[current_location]
        hits == {i \in 1 .. Len(here) : Matches(here[i], args)}
        item == here[Min(hits)]
    IN  /\ IF args = NoWords
           THEN Refuse("refused")
           ELSE IF hits = {}
           THEN Refuse("refused")
           ELSE IF ItemType(item) # "portable"
           THEN \E k \in RandomChoice(5) :
                   /\ response_text' = "fixed in place"
                   /\ flavour' = k
                   /\ UNCHANGED <<inventory, player_carry_mass, objects, instance,
                                  cargo_by_room, raised>>
           ELSE IF CanAddToInventory(item, player_carry_mass)
           THEN \E k \in RandomChoice(4) : TakeSuccess(Min(hits), k)
           ELSE Refuse("too heavy")
        /\ NoWorldChange

\* item data matched by name or keyword, as _handle_drop and _handle_store do
MatchesData(item, target) == target = ItemName(item) \/ target \in ItemKeywords(item)

\* CommandProcessor._handle_drop(args)
HandleDrop(args) ==
    LET hits == {i \in 1 .. Len(inventory) : MatchesData(inventory[i], args)}
        item == inventory[Min(hits)]
    IN  /\ IF args = NoWords
           THEN Refuse("refused")
           ELSE IF hits = {}
           THEN Refuse("refused")
           ELSE \E k \in RandomChoice(4) :
                /\ inventory' = InventoryAfterRemove(inventory, item)
                /\ player_carry_mass' = MassAfterRemove(inventory, player_carry_mass, item)
                /\ objects' = [objects EXCEPT
                                  ![current_location] = Append(objects[current_location], item)]
                /\ instance' = [instance EXCEPT ![current_location] = Append(@, "dropped")]
                /\ response_text' = "dropped"
                /\ flavour' = k
                /\ UNCHANGED <<cargo_by_room, raised>>
        /\ NoWorldChange

\* CommandProcessor._handle_store(args)
HandleStore(args) ==
    LET hits == {i \in 1 .. Len(inventory) :
                    ItemType(inventory[i]) = "portable" /\ MatchesData(inventory[i], args)}
        item == inventory[Min(hits)]
    IN  /\ IF args = NoWords
           THEN Refuse("refused")
           ELSE IF current_location \notin StorageRooms
           THEN Refuse("refused")
           ELSE IF hits = {}
           THEN Refuse("refused")
           ELSE /\ cargo_by_room' = [cargo_by_room EXCEPT ![current_location] = Append(@, item)]
                /\ inventory' = ListRemove(inventory, item)
                /\ response_text' = "stored"
                /\ flavour' = 0
                /\ UNCHANGED <<player_carry_mass, objects, instance, raised>>
        /\ NoWorldChange

\* CommandProcessor._handle_retrieve(args)
HandleRetrieve(args) ==
    LET cargo == IF current_location \in StorageRooms
                 THEN cargo_by_room[current_location] ELSE << >>
        hits == {i \in 1 .. Len(cargo) :
                    Matches(cargo[i], args) /\ ItemType(cargo[i]) = "portable"}
        item == cargo[Min(hits)]
    IN  /\ IF args = NoWords
           THEN Refuse("refused")
           ELSE IF current_location \notin StorageRooms
           THEN Refuse("refused")
           ELSE IF hits = {}
           THEN Refuse("refused")
           ELSE IF CanAddToInventory(item, player_carry_mass)
           THEN \E k \in RandomChoice(4) :
                /\ inventory' = InventoryAfterAdd(inventory, player_carry_mass, item)
                /\ player_carry_mass' = MassAfterAdd(player_carry_mass, item)
                /\ cargo_by_room' = [cargo_by_room EXCEPT
                                        ![current_location] = ListRemove(@, item)]
                /\ response_text' = "retrieved"
                /\ flavour' = k
                /\ UNCHANGED <<objects, instance, raised>>
           ELSE Refuse("too heavy")
        /\ NoWorldChange

\* CommandProcessor._handle_examine(args): an object of the room answers;
\* otherwise the inventory is read through GameManager.get_player_inventory_ids,
\* which GameManager does not define
HandleExamine(args) ==
    LET here == objects[current_location]
        hits == {i \in 1 .. Len(here) : Matches(here[i], args)}
    IN  /\ IF args = NoWords
           THEN Refuse("refused")
           ELSE IF hits # {}
           THEN Refuse("examined")
           ELSE /\ raised' = TRUE
                /\ UNCHANGED <<response_text, flavour, inventory, player_carry_mass,
                               objects, instance, cargo_by_room>>
        /\ NoWorldChange

\* _handle_unlock / _handle_lock: the exit the target names (0: none)
LockExit(room, target) ==
    LET exits == Exits(room)
        hits == {i \in 1 .. Len(exits) :
                    target = exits[i].key \/ target \in exits[i].shortcuts}
    IN  IF hits = {} THEN 0 ELSE Min(hits)

\* What _handle_unlock / _handle_lock answer before the credential check
\* ("" when the check is reached)
LockRefusal(action, args) ==
    LET e == LockExit(current_location, args)
        next == Exits(current_location)[e].target
        between == DoorsBetween(current_location, next)
        d == CHOOSE x \in between : TRUE
    IN  IF args = NoWords THEN "lock or unlock what"
        ELSE IF e = 0 THEN "no door leads there"
        ELSE IF between = {} THEN "no matching door found"
        ELSE IF action = "unlock" /\ ~locked[d] THEN "already unlocked"
        ELSE IF action = "lock" /\ locked[d] THEN "already locked"
        ELSE IF ~HasPanel(d, current_location) THEN "no panel on this side"
        ELSE ""

\* The door _handle_unlock / _handle_lock have found when they do not refuse
LockDoor(args) ==
    CHOOSE d \in DoorsBetween(current_location,
                              Exits(current_location)[LockExit(current_location, args)].target) : TRUE

\* CommandProcessor._handle_unlock(args) and _handle_lock(args)
HandleLockUnlock(action, args) ==
    LET refusal == LockRefusal(action, args)
        d == LockDoor(args)
        r == Attempt(action, <<d, current_location>>, inventory)
    IN  /\ IF refusal # ""
           THEN response_text' = "refused" /\ UNCHANGED <<locked, raised>>
           ELSE IF ~r.returned
           THEN raised' = TRUE /\ UNCHANGED <<locked, response_text>>
           ELSE IF r.success
           THEN /\ locked' = [locked EXCEPT ![d] = (action = "lock")]
                /\ response_text' = "access granted"
                /\ UNCHANGED raised
           ELSE response_text' = "denied" /\ UNCHANGED <<locked, raised>>
        /\ UNCHANGED <<current_location, inventory, player_carry_mass, objects,
                       security_level, is_broken, repair_progress, scheduled, last_panel, pin_attempts,
                       pin_max_attempts, pending_pin_callback>>
        /\ NoItemMoved

\* A handler that only answers (quit, the inventory and cargo views,
\* examine) or an unknown verb
OnlyAnswer(text) ==
    /\ response_text' = text
    /\ UNCHANGED <<current_location, inventory, player_carry_mass, objects, locked,
                   security_level, is_broken, repair_progress, scheduled, last_panel, pin_attempts,
                   pin_max_attempts, pending_pin_callback, raised>>
    /\ NoItemMoved

\* The handler process dispatches a verb to
Dispatch(handler, args) ==
    CASE handler = "move" -> HandleMove(args)
      [] handler = "take" -> HandleTake(args)
      [] handler = "drop" -> HandleDrop(args)
      [] handler = "lock" -> HandleLockUnlock("lock", args)
      [] handler = "unlock" -> HandleLockUnlock("unlock", args)
      [] handler = "store" -> HandleStore(args)
      [] handler = "retrieve" -> HandleRetrieve(args)
      [] handler = "examine" -> HandleExamine(args)
      [] handler = "unknown" -> OnlyAnswer("not understood")
      [] OTHER -> OnlyAnswer("answered")

\* CommandProcessor.process(cmd)
Process(line) ==
    LET words == Words(line) IN
    /\ ~raised
    /\ IF words = NoWords
       THEN UNCHANGED vars
       ELSE Dispatch(Commands(ProcessVerb(words)), ProcessArgs(words))
    /\ UNCHANGED classVars

(***************************************************************************)
(* models/player.py, models/interactable.py: objects as constructed        *)
(***************************************************************************)
\* None
NoItem == "none"

\* Player.__init__: the slots of Player.equipped
Slots == {"body", "torso", "waist", "feet", "head"}

\* Player.__init__
NewPlayer == [inventory |-> << >>, equipped |-> [slot \in Slots |-> NoItem]]

\* Player.max_carry_mass, in tenths of a kilogram
max_carry_mass == 100

RECURSIVE MassOf(_)
\* sum(item.mass for item in list)
MassOf(list) == IF list = << >> THEN 0 ELSE ItemMass(Head(list)) + MassOf(Tail(list))

\* Player.current_carry_mass
CurrentCarryMass(p) == MassOf(p.inventory)

\* Player.add_to_inventory(item): the (bool, str) it returns, as success
PlayerCanAdd(p, item) ==
    ItemType(item) = "portable" /\ CurrentCarryMass(p) + ItemMass(item) <= max_carry_mass

\* Player.add_to_inventory(item): the player afterwards
PlayerAfterAdd(p, item) ==
    IF PlayerCanAdd(p, item) THEN [p EXCEPT !.inventory = Append(@, item)] ELSE p

\* A removal that leaves the loose inventory as it is
PlayerAfterRemoveNothing(p, item) == p

\* Player.remove_from_inventory(item): the player afterwards
PlayerAfterRemove(p, item) ==
    IF InList(item, p.inventory) THEN [p EXCEPT !.inventory = ListRemove(@, item)] ELSE p

\* bool(x) of the tuple add_to_inventory returns: a tuple of two is never empty
Truthy(ok) == TRUE

\* What Player.equip and Player.unequip leave alone
OnlyPlayer ==
    /\ flavour' = 0
    /\ UNCHANGED <<current_location, inventory, player_carry_mass, objects, locked,
                   security_level, is_broken, repair_progress, scheduled, last_panel, pin_attempts,
                   pin_max_attempts, pending_pin_callback, raised, cargo_by_room,
                   instance, unit, parse, load, room_exits, chrono>>

\* Player.equip(item)
Equip(item) ==
    LET slot == EquipSlot(item)
        old == player.equipped[slot]
        success == PlayerCanAdd(player, old)
        unequipped == IF old # NoItem THEN PlayerAfterAdd(player, old) ELSE player
    IN  /\ IF slot \notin Slots
           THEN response_text' = "cannot equip" /\ UNCHANGED player
           ELSE IF old # NoItem /\ ~Truthy(success)
           THEN /\ response_text' = "cannot equip"
                /\ player' = unequipped
           ELSE /\ response_text' = "equipped"
                /\ player' = [PlayerAfterRemove(unequipped, item)
                                 EXCEPT !.equipped[slot] = item]
        /\ OnlyPlayer

\* Player.unequip(slot)
Unequip(slot) ==
    LET item == player.equipped[slot] IN
    /\ IF slot \notin Slots
       THEN response_text' = "cannot unequip" /\ UNCHANGED player
       ELSE IF item = NoItem
       THEN response_text' = "cannot unequip" /\ UNCHANGED player
       ELSE IF PlayerCanAdd(player, item)
       THEN /\ response_text' = "unequipped"
            /\ player' = [PlayerAfterAdd(player, item) EXCEPT !.equipped[slot] = NoItem]
       ELSE response_text' = "cannot unequip" /\ UNCHANGED player
    /\ OnlyPlayer

\* StorageUnit.__init__ with capacity_mass given in the item's data
NewStorageUnit(capacity) ==
    [contents |-> << >>, is_open |-> FALSE, capacity_mass |-> capacity, current_mass |-> 0]

\* capacity_mass when the data give none (100.0 kg)
DefaultCapacity == 1000

CanAddItemBelowCapacity(u, item) == (u.current_mass + ItemMass(item)) < u.capacity_mass

\* StorageUnit.can_add_item(item)
CanAddItem(u, item) == (u.current_mass + ItemMass(item)) <= u.capacity_mass

\* What StorageUnit.add_item and remove_item leave alone
OnlyUnit ==
    /\ flavour' = 0
    /\ UNCHANGED <<current_location, inventory, player_carry_mass, objects, locked,
                   security_level, is_broken, repair_progress, scheduled, last_panel, pin_attempts,
                   pin_max_attempts, pending_pin_callback, raised, cargo_by_room,
                   instance, player, parse, load, room_exits, chrono>>

\* StorageUnit.add_item(item)
AddItem(item) ==
    /\ IF ~CanAddItem(unit, item)
       THEN response_text' = "not added" /\ UNCHANGED unit
       ELSE /\ unit' = [unit EXCEPT !.contents = Append(@, item),
                                    !.current_mass = @ + ItemMass(item)]
            /\ response_text' = "added"
    /\ OnlyUnit

\* StorageUnit.remove_item(item)
RemoveItem(item) ==
    /\ IF InList(item, unit.contents)
       THEN /\ unit' = [unit EXCEPT !.contents = ListRemove(@, item),
                                    !.current_mass = @ - ItemMass(item)]
            /\ response_text' = "removed"
       ELSE response_text' = "not removed" /\ UNCHANGED unit
    /\ OnlyUnit

\* process has been given no line yet
NoParse ==
    [cmd |-> NoWords, table |-> {}, returned |-> FALSE, handled |-> FALSE,
     verb |-> NoWords, args |-> NoWords]

\* The Player, the StorageUnit and the verb lookup as constructed
ClassesNew ==
    /\ player = NewPlayer
    /\ unit = NewStorageUnit(DefaultCapacity)
    /\ parse = NoParse
    /\ room_exits = NoExits
    /\ chrono = NoChrono

\* No run of load_from_json on other connection records is under way
NoLoad == [connections |-> << >>, loaded |-> FALSE, doors |-> << >>]

\* Every object of a room is the instance made when the ship was loaded;
\* the cargo lists are empty (create_new_game)
LoadedShip ==
    /\ instance = [r \in Rooms |-> [i \in 1 .. Len(objects[r]) |-> "loaded"]]
    /\ load = NoLoad
    /\ cargo_by_room = [r \in StorageRooms |-> << >>]
    /\ flavour = 0

(***************************************************************************)
(* The lines the player types and the targets given to the door handler.  *)
(***************************************************************************)
\* destinations given to go
MoveArgs ==
    { NoWords, <<"corridor">>, <<"quarters">>, <<"cargo", "bay">>, <<"fore">>,
      <<"to", "the", "corridor">>, <<"bridge">> }

\* targets given to lock and unlock
ExitArgs ==
    { NoWords, <<"corridor">>, <<"quarters">>, <<"cargo", "bay">>, <<"cargo">>,
      <<"ladder">>, <<"fore">>, <<"bridge">> }

ItemArgs == { NoWords, <<"card">>, <<"high", "card">>, <<"wrench">> }

PinLines == { <<"1234">>, <<"4321">>, <<"0000">> }

\* GameManager.get_player_inventory() holds the item
Holds(item) == InList(item, inventory)

Lines ==
    {<<"go">> \o a : a \in MoveArgs}
    \cup {<<v>> \o a : v \in {"lock", "unlock"}, a \in ExitArgs \ {<<"fore">>, <<"ladder">>}}
    \cup {<<"take">> \o a : a \in ItemArgs}
    \cup { NoWords, <<"GO", "Corridor">>, <<"pick", "up", "card">>, <<"look">> }

(***************************************************************************)
(* The system                                                              *)
(***************************************************************************)
\* create_new_game: empty inventory, the player in the starting room; the
\* world data fixes the doors' levels and locked flags and where the cards lie
Init ==
    /\ current_location = STARTING_ROOM
    /\ inventory = << >>
    /\ player_carry_mass = 0
    /\ objects = [r \in Rooms |->
                    IF r = STARTING_ROOM THEN <<"id_card_low_sec", "id_card_high_sec">>
                    ELSE << >>]
    /\ locked \in {[d \in Doors |-> b] : b \in BOOLEAN}
    /\ security_level \in {[d \in Doors |-> IF d = "d1" THEN l ELSE (l + 2) % 4] :
                               l \in SecurityLevels}
    /\ is_broken = [p \in Panels |-> FALSE]
    /\ repair_progress = [p \in Panels |-> 0]
    /\ scheduled = << >>
    /\ last_panel = NoPanel
    /\ pin_attempts = NoAttr
    /\ pin_max_attempts = NoAttr
    /\ pending_pin_callback = NoCallback
    /\ response_text = ""
    /\ raised = FALSE
    /\ LoadedShip
    /\ ClassesNew

Next ==
    \/ \E line \in Lines : Process(line)
    \/ \E action \in {"lock", "unlock"}, args \in ExitArgs : HandleDoorAction(action, args)
    \/ \E i \in 1 .. MaxScheduled : FireDelayed(i)
    \/ \E panel \in Panels : Damage(panel)

Spec == Init /\ [][Next]_vars

(***************************************************************************)
(* The PIN sub-state on its own: the system started where the swipe        *)
(* continuation leaves it when the card check succeeds at a door of level  *)
(* high-keycard+PIN (door_handler.py:75-82, 170-175), with the lines typed *)
(* from then on also given to the armed continuation.                      *)
(***************************************************************************)
InitPin ==
    \E panel \in Panels, action \in {"lock", "unlock"}, withLow \in BOOLEAN :
        /\ current_location = panel[2]
        /\ inventory = IF withLow THEN <<"id_card_low_sec", "id_card_high_sec">>
                                  ELSE <<"id_card_high_sec">>
        /\ player_carry_mass = Len(inventory) * ItemMass("id_card_high_sec")
        /\ objects = [r \in Rooms |->
                        IF r = STARTING_ROOM /\ ~withLow THEN <<"id_card_low_sec">>
                        ELSE << >>]
        /\ locked \in [Doors -> BOOLEAN]
        /\ locked[panel[1]] = (action = "unlock")
        /\ security_level = [d \in Doors |-> IF d = panel[1] THEN HIGH_SEC_KEYCARD_PIN
                                              ELSE LOW_SEC_KEYCARD_ONLY]
        /\ is_broken = [p \in Panels |-> FALSE]
        /\ repair_progress = [p \in Panels |-> 0]
        /\ scheduled = << >>
        /\ last_panel = panel
        /\ pin_attempts = 0
        /\ pin_max_attempts = 3
        /\ pending_pin_callback = [action |-> action, door |-> panel[1]]
        /\ response_text = "enter pin"
        /\ raised = FALSE
        /\ LoadedShip
        /\ ClassesNew

NextPin ==
    \/ Next
    \/ \E pin \in PinLines : HandlePinInput(pin)

SpecPin == InitPin /\ [][NextPin]_vars

(***************************************************************************)
(* Repairs: a ship whose corridor has a panel for each of its two doors,   *)
(* loaded with any of its panels damaged (the "damaged" flag of a panel    *)
(* record, ship.py:120); the player holds the low-security card.           *)
(***************************************************************************)
RepairPanels == {<<"d1", "quarters">>, <<"d1", "corridor">>, <<"d2", "corridor">>}

\* targets given to repair
RepairArgs ==
    { NoWords, <<"quarters">>, <<"cargo", "bay">>, <<"corridor">>, <<"cabin">>,
      <<"aft">>, <<"bridge">> }

RepairDoorArgs == { NoWords, <<"quarters">>, <<"cargo", "bay">>, <<"corridor">> }

RepairLines == { <<"go", "corridor">>, <<"go", "quarters">> }

\* The ship as loaded, its doors at the given security levels
RepairShip(levels) ==
    /\ current_location = STARTING_ROOM
    /\ inventory = <<"id_card_low_sec">>
    /\ player_carry_mass = ItemMass("id_card_low_sec")
    /\ objects = [r \in Rooms |-> << >>]
    /\ locked \in {[d \in Doors |-> b] : b \in BOOLEAN}
    /\ security_level = levels
    /\ is_broken \in [RepairPanels -> BOOLEAN]
    /\ repair_progress = [p \in RepairPanels |-> 0]
    /\ scheduled = << >>
    /\ last_panel = NoPanel
    /\ pin_attempts = NoAttr
    /\ pin_max_attempts = NoAttr
    /\ pending_pin_callback = NoCallback
    /\ response_text = ""
    /\ raised = FALSE
    /\ LoadedShip
    /\ ClassesNew

InitRepair ==
    RepairShip([d \in Doors |-> IF d = "d1" THEN LOW_SEC_KEYCARD_ONLY
                                ELSE HIGH_SEC_KEYCARD_ONLY])

NextRepair ==
    \/ \E args \in RepairArgs : HandleRepairDoorPanel(args)
    \/ \E action \in {"lock", "unlock"}, args \in RepairDoorArgs : HandleDoorAction(action, args)
    \/ \E line \in RepairLines : Process(line)
    \/ \E i \in 1 .. MaxScheduled + MaxRepairs : FireDelayed(i)

SpecRepair == InitRepair /\ [][NextRepair]_vars

(***************************************************************************)
(* The same ship with time passing: a continuation that is due fires.      *)
(* Door d2 is at either of the two high security levels.                   *)
(***************************************************************************)
InitFire ==
    \E level \in {HIGH_SEC_KEYCARD_ONLY, HIGH_SEC_KEYCARD_PIN} :
        RepairShip([d \in Doors |-> IF d = "d1" THEN LOW_SEC_KEYCARD_ONLY ELSE level])

\* Some scheduled continuation fires
Fire == \E i \in 1 .. MaxScheduled + MaxRepairs : FireDelayed(i)

SpecFire == InitFire /\ [][NextRepair]_vars /\ WF_vars(Fire)

(***************************************************************************)
(* Swipes with commands typed before the delay elapses: the player holds   *)
(* one keycard, walks between the rooms, and drops and takes the card      *)
(* while a swipe continuation is scheduled.                                *)
(***************************************************************************)
SwipeLines ==
    { <<"go", "corridor">>, <<"go", "quarters">>, <<"go", "cargo", "bay">>,
      <<"drop", "card">>, <<"take", "card">> }

InitSwipe ==
    \E card \in {"id_card_low_sec", "id_card_high_sec"} :
        /\ current_location = STARTING_ROOM
        /\ inventory = <<card>>
        /\ player_carry_mass = ItemMass(card)
        /\ objects = [r \in Rooms |-> << >>]
        /\ locked \in {[d \in Doors |-> b] : b \in BOOLEAN}
        /\ security_level \in {[d \in Doors |-> l] : l \in SecurityLevels}
        /\ is_broken = [p \in Panels |-> FALSE]
        /\ repair_progress = [p \in Panels |-> 0]
        /\ scheduled = << >>
        /\ last_panel = NoPanel
        /\ pin_attempts = NoAttr
        /\ pin_max_attempts = NoAttr
        /\ pending_pin_callback = NoCallback
        /\ response_text = ""
        /\ raised = FALSE
        /\ LoadedShip
        /\ ClassesNew

NextSwipe ==
    \/ \E line \in SwipeLines : Process(line)
    \/ \E action \in {"lock", "unlock"}, args \in ExitArgs : HandleDoorAction(action, args)
    \/ \E i \in 1 .. MaxScheduled : FireDelayed(i)
    \/ \E panel \in Panels : Damage(panel)

SpecSwipe == InitSwipe /\ [][NextSwipe]_vars

(***************************************************************************)
(* A new game at rest, for the classes exercised on their own.             *)
(***************************************************************************)
gameVars == <<current_location, inventory, player_carry_mass, objects, locked,
              security_level, is_broken, repair_progress, scheduled, last_panel, pin_attempts,
              pin_max_attempts, pending_pin_callback, response_text, raised,
              cargo_by_room, instance, flavour>>

\* No door flow has begun
DoorsAtRest ==
    /\ locked = [d \in Doors |-> FALSE]
    /\ security_level = [d \in Doors |-> LOW_SEC_KEYCARD_ONLY]
    /\ is_broken = [p \in Panels |-> FALSE]
    /\ repair_progress = [p \in Panels |-> 0]
    /\ scheduled = << >>
    /\ last_panel = NoPanel
    /\ pin_attempts = NoAttr
    /\ pin_max_attempts = NoAttr
    /\ pending_pin_callback = NoCallback
    /\ response_text = ""
    /\ raised = FALSE

NewGameAtRest ==
    /\ current_location = STARTING_ROOM
    /\ inventory = << >>
    /\ player_carry_mass = 0
    /\ objects = [r \in Rooms |-> << >>]
    /\ DoorsAtRest
    /\ LoadedShip

(***************************************************************************)
(* Movement on its own: the starting room is given two exits whose keys,   *)
(* compass directions and shortcuts overlap, and the player walks.         *)
(***************************************************************************)
\* The exits a room of the ship can be given
ExitChoices ==
    [key : {<<"corridor">>, <<"fore">>, <<"ladder">>, <<"hatch">>},
     target : {"corridor", "cargo bay"},
     label : {<<"exit">>},
     direction : {NoWords, <<"fore">>},
     shortcuts : {{}, {<<"fore">>}, {<<"hall">>}},
     door : {NoDoor}]

\* Room.exits is a dictionary: no key twice; each exit leads to another room
ExitLists ==
    {list \in [1 .. 2 -> ExitChoices] :
        list[1].key # list[2].key /\ list[1].target # list[2].target}

MoveLines ==
    { <<"go", "fore">>, <<"go", "hall">>, <<"go", "corridor">>, <<"go", "to", "the", "fore">>,
      <<"go", "bridge">>, <<"go", "quarters">>, <<"go">> }

InitMove ==
    /\ NewGameAtRest
    /\ player = NewPlayer
    /\ unit = NewStorageUnit(DefaultCapacity)
    /\ parse = NoParse
    /\ room_exits \in ExitLists
    /\ chrono = NoChrono

NextMove == \E line \in MoveLines : Process(line)

SpecMove == InitMove /\ [][NextMove]_vars

(***************************************************************************)
(* A panel's damage and repair on their own: damage, repair(amount) and    *)
(* the repair command, on the ship of the new game.                        *)
(***************************************************************************)
\* The amounts given to repair, in quarters: 0.0, 0.25, 0.5, 1.0, 1.5
RepairAmounts == {0, 1, 2, 4, 6}

InitPanel ==
    /\ NewGameAtRest
    /\ ClassesNew

NextPanel ==
    \/ \E panel \in Panels : Damage(panel)
    \/ \E panel \in Panels, amount \in RepairAmounts : PanelRepair(panel, amount)
    \/ \E args \in RepairDoorArgs : HandleRepairDoorPanel(args)
    \/ \E i \in 1 .. MaxRepairs : FireDelayed(i)

SpecPanel == InitPanel /\ [][NextPanel]_vars

(***************************************************************************)
(* models/chronometer.py: a Chronometer set from a start date               *)
(* <<year, month, day, hour, minute>> and advanced in minutes.             *)
(***************************************************************************)
\* Most calls of advance on one Chronometer
MaxAdvances == 2

\* Chronometer._date_to_minutes(year, month, day, hour, minute)
date_to_minutes(date) ==
    LET days == (date[1] * 360) + ((date[2] - 1) * 30) + (date[3] - 1)
    IN  (days * 24 * 60) + (date[4] * 60) + date[5]

\* _minutes_to_date with the month and the day counted from 0
minutes_to_date_from_zero(total_minutes) ==
    LET minutes_in_day == 24 * 60
        days == total_minutes \div minutes_in_day
        minutes_left == total_minutes % minutes_in_day
        days_in_year == days % 360
    IN  <<days \div 360, days_in_year \div 30, days_in_year % 30,
          minutes_left \div 60, minutes_left % 60>>

\* Chronometer._minutes_to_date(total_minutes): Python's // and % round
\* towards minus infinity, as \div and % do
minutes_to_date(total_minutes) ==
    LET minutes_in_day == 24 * 60
        days == total_minutes \div minutes_in_day
        minutes_left == total_minutes % minutes_in_day
        days_in_year == days % 360
    IN  <<days \div 360, (days_in_year \div 30) + 1, (days_in_year % 30) + 1,
          minutes_left \div 60, minutes_left % 60>>

\* Chronometer.__init__ with START_DATE_TIME = date
NewChronometer(date) ==
    [set |-> TRUE, start |-> date, total_minutes |-> date_to_minutes(date),
     advanced |-> 0, calls |-> 0]

\* Chronometer.advance(minutes)
Advance(minutes) ==
    /\ chrono.set
    /\ chrono.calls < MaxAdvances
    /\ chrono' = [chrono EXCEPT !.total_minutes = @ + minutes,
                                !.advanced = @ + minutes,
                                !.calls = @ + 1]
    /\ UNCHANGED <<gameVars, player, unit, parse, load, room_exits>>

\* The start dates: the first and last of every range, year 0 and the
\* launch year of constants.START_DATE_TIME
StartDates ==
    {<<y, mo, d, h, mi>> : y \in {0, 1, 2276}, mo \in {1, 6, 12}, d \in {1, 15, 30},
                           h \in {0, 23}, mi \in {0, 59}}

\* The minutes given to advance: a minute, an hour, a day, a month, a year,
\* a repair (SHIP_PANEL_REPAIR_MINUTES)
AdvanceMinutes == {1, 30, 60, 1440, 43200, 518400}

InitChrono ==
    /\ NewGameAtRest
    /\ player = NewPlayer
    /\ unit = NewStorageUnit(DefaultCapacity)
    /\ parse = NoParse
    /\ room_exits = NoExits
    /\ chrono \in {NewChronometer(date) : date \in StartDates}

NextChrono == \E minutes \in AdvanceMinutes : Advance(minutes)

SpecChrono == InitChrono /\ [][NextChrono]_vars

(***************************************************************************)
(* models/ship.py: Ship.load_from_json, the doors and their panels.        *)
(* A connection record is [id, rooms, sides]: sides lists the "side" of    *)
(* each of its panel records.  A Door is [id, rooms, panels]: panels is    *)
(* the dictionary Door.panels, kept as its entries [side, door_id].        *)
(***************************************************************************)
\* door.panels[side_room_id] = panel, for each panel record in turn
RECURSIVE AttachPanels(_, _, _)
AttachPanels(panels, sides, door_id) ==
    IF sides = << >> THEN panels
    ELSE AttachPanels({q \in panels : q.side # Head(sides)}
                          \cup {[side |-> Head(sides), door_id |-> door_id]},
                      Tail(sides), door_id)

\* The loop over the connection records (ship.py:81-144): ship.doors
RECURSIVE LoadDoors(_, _)
LoadDoors(doors, conns) ==
    IF conns = << >> THEN doors
    ELSE LET conn == Head(conns)
         IN  IF \/ Len(conn.rooms) # 2
                \/ \E i \in 1 .. Len(conn.rooms) : conn.rooms[i] \notin Rooms
             THEN LoadDoors(doors, Tail(conns))
             ELSE LET pair_key == {conn.rooms[1], conn.rooms[2]}
                      hits == {i \in 1 .. Len(doors) :
                                  {doors[i].rooms[1], doors[i].rooms[2]} = pair_key}
                      door == IF hits = {}
                              THEN [id |-> conn.id, rooms |-> conn.rooms, panels |-> {}]
                              ELSE doors[Min(hits)]
                      attached == [door EXCEPT
                                      !.panels = AttachPanels(door.panels, conn.sides, conn.id)]
                  IN  LoadDoors(IF hits = {} THEN Append(doors, attached)
                                ELSE [doors EXCEPT ![Min(hits)] = attached],
                                Tail(conns))

\* next((k for k, v in room.exits.items() if v.get("target") == other), None),
\* as a position in the room's exits (0: None)
FirstExitTo(room, target) ==
    LET hits == {i \in 1 .. Len(Exits(room)) : Exits(room)[i].target = target}
    IN  IF hits = {} THEN 0 ELSE Min(hits)

\* The "door" the patching of the exits (ship.py:146-159) leaves on exit i of
\* the room: the last door patched onto it, NoDoor when none was
ExitDoor(doors, room, i) ==
    LET patched == {k \in 1 .. Len(doors) :
                       LET a == doors[k].rooms[1]
                           b == doors[k].rooms[2]
                       IN  /\ FirstExitTo(a, b) # 0
                           /\ FirstExitTo(b, a) # 0
                           /\ \/ room = a /\ i = FirstExitTo(a, b)
                              \/ room = b /\ i = FirstExitTo(b, a)}
    IN  IF patched = {} THEN NoDoor
        ELSE doors[CHOOSE k \in patched : \A j \in patched : j <= k].id

\* The connection records of the ship the game is played on
WorldConnections ==
    [i \in 1 .. Len(DoorOrder) |->
        LET d == DoorOrder[i]
            rooms == IF d = "d1" THEN <<"quarters", "corridor">>
                                 ELSE <<"corridor", "cargo bay">>
        IN  [id |-> d, rooms |-> rooms,
             sides |-> SelectSeq(rooms, LAMBDA r : HasPanel(d, r))]]

\* Ship.load_from_json on the connection records drawn
LoadFromJson ==
    /\ ~load.loaded
    /\ load' = [load EXCEPT !.loaded = TRUE, !.doors = LoadDoors(<< >>, load.connections)]
    /\ UNCHANGED <<gameVars, player, unit, parse, room_exits, chrono>>

\* Most connection records in door_status.json
MaxConnections == 2

\* "rooms" of a connection record
LoadRooms == { <<"quarters", "corridor">>, <<"corridor", "cargo bay">>, <<"corridor">> }

\* the sides of a record's panel records: none, one or two
LoadSides ==
    {<< >>} \cup {<<a>> : a \in Rooms} \cup {<<a, b>> : a \in Rooms, b \in Rooms}

ConnectionLists ==
    UNION {[1 .. n -> LoadRooms \X LoadSides] : n \in 0 .. MaxConnections}

\* the records of a list, named d1, d2, ... in file order
Connections(list) ==
    [i \in 1 .. Len(list) |->
        [id |-> IF i = 1 THEN "d1" ELSE IF i = 2 THEN "d2" ELSE "d3",
         rooms |-> list[i][1], sides |-> list[i][2]]]

InitLoad ==
    /\ current_location = STARTING_ROOM
    /\ inventory = << >>
    /\ player_carry_mass = 0
    /\ objects = [r \in Rooms |-> << >>]
    /\ DoorsAtRest
    /\ instance = [r \in Rooms |-> << >>]
    /\ cargo_by_room = [r \in StorageRooms |-> << >>]
    /\ flavour = 0
    /\ player = NewPlayer
    /\ unit = NewStorageUnit(DefaultCapacity)
    /\ parse = NoParse
    /\ room_exits = NoExits
    /\ chrono = NoChrono
    /\ load \in {[NoLoad EXCEPT !.connections = Connections(list)] : list \in ConnectionLists}

NextLoad == LoadFromJson

SpecLoad == InitLoad /\ [][NextLoad]_vars

(***************************************************************************)
(* The inventory commands on their own: a ship whose rooms hold items      *)
(* heavy enough to reach the carry limit, the player free to walk between  *)
(* the quarters and the cargo bay; in half of the runs the player holds    *)
(* the high-security card and a PIN challenge is pending at door d1.       *)
(***************************************************************************)
InvItemArgs == { NoWords, <<"crate">>, <<"toolkit">>, <<"jumpsuit">>, <<"terminal">> }

InvLines ==
    {<<v>> \o a : v \in {"take", "drop", "store", "retrieve"}, a \in InvItemArgs}
    \cup { <<"examine", "crate">>, <<"examine">>, <<"go", "cargo", "bay">>, <<"go", "quarters">> }

InitInv ==
    \E armed \in BOOLEAN :
        /\ current_location = STARTING_ROOM
        /\ inventory = IF armed THEN <<"id_card_high_sec">> ELSE << >>
        /\ player_carry_mass = IF armed THEN ItemMass("id_card_high_sec") ELSE 0
        /\ objects = [r \in Rooms |->
                        CASE r = STARTING_ROOM -> <<"crate", "toolkit">>
                          [] r = "cargo bay" -> <<"terminal", "jumpsuit">>
                          [] OTHER -> << >>]
        /\ locked = [d \in Doors |-> TRUE]
        /\ security_level = [d \in Doors |-> HIGH_SEC_KEYCARD_PIN]
        /\ is_broken = [p \in Panels |-> FALSE]
        /\ repair_progress = [p \in Panels |-> 0]
        /\ scheduled = << >>
        /\ last_panel = IF armed THEN <<"d1", STARTING_ROOM>> ELSE NoPanel
        /\ pin_attempts = IF armed THEN 0 ELSE NoAttr
        /\ pin_max_attempts = IF armed THEN 3 ELSE NoAttr
        /\ pending_pin_callback = IF armed THEN [action |-> "unlock", door |-> "d1"]
                                            ELSE NoCallback
        /\ response_text = IF armed THEN "enter pin" ELSE ""
        /\ raised = FALSE
        /\ LoadedShip
        /\ ClassesNew

NextInv ==
    \/ \E line \in InvLines : Process(line)
    \/ \E pin \in {<<"0000">>} : HandlePinInput(pin)

SpecInv == InitInv /\ [][NextInv]_vars

(***************************************************************************)
(* The Player class on its own (models/player.py): a player holding and    *)
(* wearing some of a few items, given equip and unequip calls.             *)
(***************************************************************************)
\* Most items in the loose inventory the player starts with
MaxHeld == 2

PlayerItems == {"eva_suit", "jumpsuit", "crate", "mag_boots", "id_card_low_sec"}

\* The inventories a player can have at the start: distinct items within
\* the carry limit
HeldLists ==
    {list \in UNION {[1 .. n -> PlayerItems] : n \in 0 .. MaxHeld} :
        /\ \A i, j \in 1 .. Len(list) : i # j => list[i] # list[j]
        /\ MassOf(list) <= max_carry_mass}

\* the argument of unequip
SlotArgs == Slots \cup {"hands"}

InitPlayer ==
    /\ NewGameAtRest
    /\ unit = NewStorageUnit(DefaultCapacity)
    /\ parse = NoParse
    /\ room_exits = NoExits
    /\ chrono = NoChrono
    /\ player \in {[inventory |-> held,
                    equipped |-> [NewPlayer.equipped EXCEPT !["body"] = body, !["feet"] = feet]] :
                       held \in HeldLists,
                       body \in {NoItem, "eva_suit", "jumpsuit"},
                       feet \in {NoItem, "mag_boots"}}
    /\ \A slot \in Slots : ~InList(player.equipped[slot], player.inventory)

\* equip called for an item of the loose inventory
EquipHeld(item) == InList(item, player.inventory) /\ Equip(item)

NextPlayer ==
    \/ \E item \in PlayerItems : EquipHeld(item)
    \/ \E slot \in SlotArgs : Unequip(slot)

SpecPlayer == InitPlayer /\ [][NextPlayer]_vars

\* Player.add_to_inventory(item) called for an item that is neither carried
\* nor worn
AddToInventory(item) ==
    /\ ~InList(item, player.inventory)
    /\ \A slot \in Slots : player.equipped[slot] # item
    /\ player' = PlayerAfterAdd(player, item)
    /\ response_text' = IF PlayerCanAdd(player, item) THEN "taken" ELSE "refused"
    /\ OnlyPlayer

\* Player.remove_from_inventory(item)
RemoveFromInventory(item) ==
    /\ player' = PlayerAfterRemove(player, item)
    /\ response_text' = IF InList(item, player.inventory) THEN "removed" ELSE "refused"
    /\ OnlyPlayer

\* The four calls of the Player class, equip also for items not carried
NextWear ==
    \/ \E item \in PlayerItems : Equip(item)
    \/ \E slot \in SlotArgs : Unequip(slot)
    \/ \E item \in PlayerItems : AddToInventory(item)
    \/ \E item \in PlayerItems : RemoveFromInventory(item)

SpecWear == InitPlayer /\ [][NextWear]_vars

(***************************************************************************)
(* The commands that pick their text at random, with the PIN lines: a      *)
(* small ship (a crate in the quarters, a terminal in the cargo bay), the  *)
(* player holding the high-security card with a PIN challenge pending.     *)
(***************************************************************************)
RandomLines ==
    { <<"take", "crate">>, <<"take", "terminal">>, <<"drop", "crate">>, <<"drop", "card">>,
      <<"store", "crate">>, <<"retrieve", "crate">>, <<"go", "cargo", "bay">>,
      <<"go", "quarters">> }

InitRandom ==
    /\ current_location = STARTING_ROOM
    /\ inventory = <<"id_card_high_sec">>
    /\ player_carry_mass = ItemMass("id_card_high_sec")
    /\ objects = [r \in Rooms |->
                    CASE r = STARTING_ROOM -> <<"crate">>
                      [] r = "cargo bay" -> <<"terminal">>
                      [] OTHER -> << >>]
    /\ locked \in {[d \in Doors |-> b] : b \in BOOLEAN}
    /\ security_level = [d \in Doors |-> HIGH_SEC_KEYCARD_PIN]
    /\ is_broken = [p \in Panels |-> FALSE]
    /\ repair_progress = [p \in Panels |-> 0]
    /\ scheduled = << >>
    /\ last_panel = <<"d1", STARTING_ROOM>>
    /\ pin_attempts = 0
    /\ pin_max_attempts = 3
    /\ pending_pin_callback \in {[action |-> a, door |-> "d1"] : a \in {"lock", "unlock"}}
    /\ response_text = "enter pin"
    /\ raised = FALSE
    /\ LoadedShip
    /\ ClassesNew

NextRandom ==
    \/ \E line \in RandomLines : Process(line)
    \/ \E pin \in PinLines : HandlePinInput(pin)

SpecRandom == InitRandom /\ [][NextRandom]_vars

(***************************************************************************)
(* What the player carries, under the inventory commands (with the        *)
(* lockout replacement) and under the Player's own methods: the runs of    *)
(* SpecInv and the runs of SpecPlayer, each also given the other's calls.  *)
(***************************************************************************)
InitCarry == InitInv \/ InitPlayer

NextCarry == NextInv \/ NextPlayer

SpecCarry == InitCarry /\ [][NextCarry]_vars

(***************************************************************************)
(* The StorageUnit class on its own (models/interactable.py): an empty     *)
(* unit of some capacity, given add_item and remove_item calls.            *)
(***************************************************************************)
\* capacity_mass of the units: 5.0 kg, 6.0 kg and the default
Capacities == {50, 60, DefaultCapacity}

UnitItems == {"jumpsuit", "flask", "mag_boots", "crate", "id_card_low_sec"}

InitUnit ==
    /\ NewGameAtRest
    /\ player = NewPlayer
    /\ parse = NoParse
    /\ room_exits = NoExits
    /\ chrono = NoChrono
    /\ unit \in {NewStorageUnit(capacity) : capacity \in Capacities}

\* an item is put into the unit it is not already in
AddItemOutside(item) == ~InList(item, unit.contents) /\ AddItem(item)

NextUnit ==
    \/ \E item \in UnitItems : AddItemOutside(item)
    \/ \E item \in UnitItems : RemoveItem(item)

SpecUnit == InitUnit /\ [][NextUnit]_vars

(***************************************************************************)
(* The same unit with the player typing open and close at it               *)
(* (command_processor.py:15-39 is the whole command table).                *)
(***************************************************************************)
OpenLines == { <<"open", "locker">>, <<"close", "locker">>, <<"open">>, <<"close">> }

NextOpen ==
    \/ NextUnit
    \/ \E line \in OpenLines : Process(line)

SpecOpen == InitUnit /\ [][NextOpen]_vars

(***************************************************************************)
(* process's verb lookup on its own, for any verb table                    *)
(* (command_processor.py:41-73).                                           *)
(***************************************************************************)
\* The verbs the tables are made of
VerbUniverse ==
    { <<"i">>, <<"take">>, <<"take", "from">>, <<"pick", "up">>, <<"repair">>,
      <<"repair", "door", "panel">>, <<"repair", "door", "access", "panel">> }

VerbTables == SUBSET VerbUniverse

\* The lines given to process
VerbLines ==
    { <<"i">>, <<"ieat">>, <<"take", "card">>, <<"take", "from", "locker">>,
      <<"pick", "up", "card">>, <<"pick">>, <<"repair", "door", "panel", "corridor">>,
      <<"repair", "door", "access", "panel">>, <<"repair", "door">>, <<"GO", "Corridor">> }

\* process(cmd) with the keys of self.commands being parse.table: the verb
\* and argument it derives and whether commands.get(verb) found a handler
Lookup(line) ==
    LET words == Words(line)
        k == VerbLengthIn(parse.table, words)
        verb == SubSeq(words, 1, k)
    IN  /\ words # NoWords
        /\ parse' = [cmd |-> line, table |-> parse.table, returned |-> TRUE,
                     handled |-> verb \in parse.table,
                     verb |-> verb, args |-> SubSeq(words, k + 1, Len(words))]
        /\ UNCHANGED <<gameVars, player, unit, load, room_exits, chrono>>

InitVerbs ==
    /\ NewGameAtRest
    /\ player = NewPlayer
    /\ unit = NewStorageUnit(DefaultCapacity)
    /\ parse \in {[NoParse EXCEPT !.table = t] : t \in VerbTables}
    /\ room_exits = NoExits
    /\ chrono = NoChrono

NextVerbs == \E line \in VerbLines : Lookup(line)

SpecVerbs == InitVerbs /\ [][NextVerbs]_vars

(***************************************************************************)
(* Properties                                                              *)
(***************************************************************************)
Count(item, list) == Cardinality({i \in 1 .. Len(list) : list[i] = item})

PinPending == pending_pin_callback # NoCallback

\* The line does not pass the panel's PIN check
WrongPin(pin) == ~attempt_pin(last_panel, pin, inventory).success

\* C1: while a PIN challenge is pending, a non-empty line given to process
\* is not parsed as a command: no handler moves the player or takes an
\* item from the room.
C1_PinLinesAreNotCommands ==
    [][\A line \in Lines :
          (PinPending /\ Words(line) # NoWords /\ Process(line))
              => (current_location' = current_location /\ objects' = objects)]_vars

\* C2: the player's location changes only to the target of an exit of the
\* current room that has no door or whose door is unlocked at that moment;
\* a move through an exit whose door is locked leaves the player in place.
C2_MoveOnlyThroughOpenExits ==
    [][current_location' # current_location
          => \E i \in 1 .. Len(Exits(current_location)) :
                LET e == Exits(current_location)[i]
                IN  /\ e.target = current_location'
                    /\ e.door = NoDoor \/ ~locked[e.door]]_vars

\* C2 happens: a move was refused at a locked door
C2_Witness ==
    /\ response_text = "door locked"
    /\ \E i \in 1 .. Len(Exits(current_location)) :
          LET e == Exits(current_location)[i] IN e.door # NoDoor /\ locked[e.door]

\* C3: a door's locked flag never changes through a panel that is broken
\* when its credential check runs, be it the check of a swipe continuation
\* scheduled earlier (the panel it was scheduled for) or the check of a
\* command (the panel on the player's side).
C3_BrokenPanelRejects ==
    [][\A d \in Doors :
          locked'[d] # locked[d]
              => IF response_text' = "id accepted"
                 THEN last_panel'[1] = d /\ ~is_broken[last_panel']
                 ELSE <<d, current_location>> \in Panels
                      /\ ~is_broken[<<d, current_location>>]]_vars

\* C3 happens: a swipe continuation ran its check at a broken panel of a
\* low-keycard door with a card held, and was denied
C3_Witness ==
    /\ response_text = "swipe denied"
    /\ last_panel # NoPanel
    /\ is_broken[last_panel]
    /\ security_level[last_panel[1]] = LOW_SEC_KEYCARD_ONLY
    /\ HasAnyCard(inventory)

\* C4: when the third consecutive wrong PIN line of a challenge is handled,
\* the doors' locked flags and the panels' broken flags are unchanged, a
\* held high-security card is replaced by a damaged card, and the
\* pending-PIN state is cleared.
C4_ThreeWrongPins ==
    [][\A pin \in PinLines :
          (PinPending /\ pin_attempts = 2 /\ WrongPin(pin) /\ HandlePinInput(pin))
              => /\ locked' = locked
                 /\ is_broken' = is_broken
                 /\ pending_pin_callback' = NoCallback
                 /\ pin_attempts' = NoAttr
                 /\ pin_max_attempts' = NoAttr
                 /\ Holds("id_card_high_sec")
                       => /\ Count("id_card_high_sec", inventory')
                               = Count("id_card_high_sec", inventory) - 1
                          /\ Count("id_card_high_sec_damaged", inventory')
                               = Count("id_card_high_sec_damaged", inventory) + 1
                          /\ Len(inventory') = Len(inventory)]_vars

\* C4 happens: a challenge ended in lockout and the card was replaced
C4_Witness ==
    /\ response_text = "lockout"
    /\ ~PinPending
    /\ Holds("id_card_high_sec_damaged")
    /\ ~Holds("id_card_high_sec")

\* C5: a PIN line that does not match leaves the locked flags unchanged and
\* counts as exactly one attempt: below the maximum the counter goes up by
\* one and the same continuation stays armed, at the maximum the challenge
\* ends; and while a challenge is pending the counter stays below the
\* maximum of three.
C5_WrongPinCounts ==
    [][/\ \A pin \in PinLines :
             (PinPending /\ WrongPin(pin) /\ HandlePinInput(pin))
                 => /\ locked' = locked
                    /\ IF pin_attempts + 1 < pin_max_attempts
                       THEN /\ pin_attempts' = pin_attempts + 1
                            /\ pin_max_attempts' = pin_max_attempts
                            /\ pending_pin_callback' = pending_pin_callback
                       ELSE pending_pin_callback' = NoCallback
       /\ pending_pin_callback' # NoCallback
             => /\ pin_max_attempts' = 3
                /\ pin_attempts' \in 0 .. pin_max_attempts' - 1]_vars

\* C5 happens: two wrong lines were counted and the challenge is still on
C5_Witness ==
    /\ PinPending
    /\ pin_attempts = 2
    /\ response_text = "pin retry"

\* C6: when a PIN line matches, the challenged door's locked flag becomes
\* the requested state (locked for lock, unlocked for unlock), no other
\* door changes, and the attempt counter, the maximum and the armed
\* continuation are all cleared.
C6_RightPinFinishes ==
    [][\A pin \in PinLines :
          (PinPending /\ ~WrongPin(pin) /\ HandlePinInput(pin))
              => /\ locked'[pending_pin_callback.door] = (pending_pin_callback.action = "lock")
                 /\ \A d \in Doors \ {pending_pin_callback.door} : locked'[d] = locked[d]
                 /\ pin_attempts' = NoAttr
                 /\ pin_max_attempts' = NoAttr
                 /\ pending_pin_callback' = NoCallback]_vars

\* C6 happens: a PIN was accepted and the challenge is over
C6_Witness ==
    /\ response_text = "pin accepted"
    /\ ~PinPending
    /\ pin_attempts = NoAttr

\* C7: when the swipe continuation of a high-keycard+PIN door fires at a
\* working panel with the high-security card held, the locked flags stay
\* and the PIN sub-state is entered: counter 0, maximum 3, continuation
\* armed for that door and action.
C7_SwipeEntersPinState ==
    [][\A i \in 1 .. Len(scheduled) :
          (/\ security_level[scheduled[i].panel[1]] = HIGH_SEC_KEYCARD_PIN
           /\ ~is_broken[scheduled[i].panel]
           /\ Holds("id_card_high_sec")
           /\ FireDelayed(i))
              => /\ locked' = locked
                 /\ pin_attempts' = 0
                 /\ pin_max_attempts' = 3
                 /\ pending_pin_callback' = [action |-> scheduled[i].action,
                                             door |-> scheduled[i].panel[1]]]_vars

\* C8: a door's locked flag changes only in a step in which a scheduled
\* swipe continuation fires, never in the step of the lock/unlock command
\* itself.
C8_LockedChangesOnlyOnFiring ==
    [][locked' # locked => Len(scheduled') < Len(scheduled)]_vars

\* C9: at a working panel the card check, for lock and for unlock, returns
\* a verdict, and it succeeds exactly when the level is none, or
\* low-keycard with any card held, or high-keycard or high-keycard+PIN
\* with the high-security card held.
C9_CardCheck ==
    \A panel \in Panels, action \in {"lock", "unlock"} :
        LET level == security_level[panel[1]]
            r == Attempt(action, panel, inventory)
        IN  ~is_broken[panel]
               => /\ r.returned
                  /\ r.success
                       = \/ level = NONE
                         \/ level = LOW_SEC_KEYCARD_ONLY /\ HasAnyCard(inventory)
                         \/ /\ level \in {HIGH_SEC_KEYCARD_ONLY, HIGH_SEC_KEYCARD_PIN}
                            /\ Holds("id_card_high_sec")

\* The reasons for which a lock/unlock aimed at args is turned away before
\* the swipe: no exit matches, or the first exit that matches is an archway,
\* its door is already in the requested state, has no panel on this side,
\* has a broken panel on this side, or the player holds no keycard.
RejectedBeforeSwipe(action, args) ==
    LET exits == Exits(current_location)
        hits == {i \in 1 .. Len(exits) :
                    \/ args = exits[i].label
                    \/ args = exits[i].direction
                    \/ args \in exits[i].shortcuts}
        d == exits[Min(hits)].door
    IN  /\ args # NoWords
        /\ \/ hits = {}
           \/ d = NoDoor
           \/ locked[d] = (action = "lock")
           \/ <<d, current_location>> \notin Panels
           \/ is_broken[<<d, current_location>>]
           \/ ~Holds("id_card_low_sec") /\ ~Holds("id_card_high_sec")

\* C10: a lock/unlock that is rejected before the swipe changes no door,
\* panel or inventory state and schedules nothing; a continuation is
\* scheduled only in a step that answers with the swipe-in-progress message.
C10_RejectedSchedulesNothing ==
    [][/\ \A action \in {"lock", "unlock"}, args \in ExitArgs :
             (/\ response_text' \in {"not swiped", "swiping"}
              /\ RejectedBeforeSwipe(action, args)
              /\ HandleDoorAction(action, args))
                 => /\ response_text' = "not swiped"
                    /\ UNCHANGED <<current_location, inventory, player_carry_mass,
                                   objects, locked, security_level, is_broken,
                                   scheduled, last_panel, pin_attempts,
                                   pin_max_attempts, pending_pin_callback, raised>>
       /\ Len(scheduled') > Len(scheduled) => response_text' = "swiping"]_vars

\* C10 happens: a swipe was turned away at a broken panel with a card held
C10_Witness ==
    /\ response_text = "not swiped"
    /\ scheduled = << >>
    /\ HasAnyCard(inventory)
    /\ \E p \in Panels : p[2] = current_location /\ is_broken[p]


\* The multi-step flows in flight: the continuations scheduled and not yet
\* fired, and the pending PIN challenge
FlowsInFlight == Len(scheduled) + (IF PinPending THEN 1 ELSE 0)

\* C11: at most one multi-step flow is in flight at a time: the scheduled
\* continuations plus the pending PIN challenge never number more than one,
\* so while one flow is in flight no lock or unlock command given to the door
\* handler is answered by scheduling another swipe.
C11_OneFlowInFlight ==
    /\ FlowsInFlight <= 1
    /\ FlowsInFlight = 1 =>
          \A action \in {"lock", "unlock"}, args \in ExitArgs :
              DoorActionResponse(action, args) # "swiping"


\* The lengths k, from the full word count down to 1, at which the first k
\* words of the line are a verb of the table
VerbLengths(table, words) == {k \in 1 .. Len(words) : SubSeq(words, 1, k) \in table}

Max(S) == CHOOSE i \in S : \A j \in S : j <= i

\* C12: for every line and verb table, process dispatches to the handler of
\* the longest verb that equals the first k words of the normalized line (k
\* from the full word count down to 1) and passes the remaining words as the
\* argument; when no k gives a verb, nothing is dispatched.
C12_LongestVerbWins ==
    parse.returned =>
        LET words == Words(parse.cmd)
            lengths == VerbLengths(parse.table, words)
        IN  /\ parse.handled = (lengths # {})
            /\ parse.handled =>
                  /\ parse.verb = SubSeq(words, 1, Max(lengths))
                  /\ parse.args = SubSeq(words, Max(lengths) + 1, Len(words))


RECURSIVE CountIn(_, _, _)
\* How often the item occurs in the lists kept under the keys
CountIn(item, lists, keys) ==
    IF keys = {} THEN 0
    ELSE LET k == CHOOSE key \in keys : TRUE
         IN  Count(item, lists[k]) + CountIn(item, lists, keys \ {k})

\* How often the item occurs over the inventories, the equipped slots, the
\* rooms' object lists, the cargo lists and the storage unit
ItemCount(item) ==
    Count(item, inventory) + Count(item, player.inventory)
    + Cardinality({slot \in Slots : player.equipped[slot] = item})
    + CountIn(item, objects, Rooms) + CountIn(item, cargo_by_room, StorageRooms)
    + Count(item, unit.contents)

\* C13: take, drop, store, retrieve, equip and unequip move items and never
\* duplicate or destroy them: in every step each item identifier occurs as
\* often as before over inventory, equipped slots, room object lists, cargo
\* lists and storage contents; the one exception is the PIN lockout, which
\* replaces one high-security card by the damaged card.
C13_ItemsConserved ==
    [][\/ \A item \in Items : ItemCount(item)' = ItemCount(item)
       \/ /\ response_text' = "lockout"
          /\ ItemCount("id_card_high_sec")' = ItemCount("id_card_high_sec") - 1
          /\ ItemCount("id_card_high_sec_damaged")' = ItemCount("id_card_high_sec_damaged") + 1
          /\ \A item \in Items \ {"id_card_high_sec", "id_card_high_sec_damaged"} :
                ItemCount(item)' = ItemCount(item)]_vars


\* C17: equipping a held item into an occupied slot moves the previously
\* equipped item back into the loose inventory and takes the new item out of
\* it; if the previous item does not fit within the carry limit the equip
\* fails, reports failure and leaves the inventory and every slot as they
\* were. Either way the previously equipped item is still held or worn.
C17_EquipIntoOccupiedSlot ==
    [][\A item \in PlayerItems :
          LET slot == EquipSlot(item)
              old == player.equipped[slot]
          IN  (slot \in Slots /\ old # NoItem /\ EquipHeld(item)) =>
                 /\ IF CurrentCarryMass(player) + ItemMass(old) <= max_carry_mass
                    THEN /\ response_text' = "equipped"
                         /\ player'.equipped = [player.equipped EXCEPT ![slot] = item]
                         /\ InList(old, player'.inventory)
                         /\ ~InList(item, player'.inventory)
                    ELSE /\ response_text' = "cannot equip"
                         /\ player' = player
                 /\ \/ InList(old, player'.inventory)
                    \/ \E s \in Slots : player'.equipped[s] = old]_vars


\* C14: after any sequence of take, drop, store, retrieve, equip, unequip
\* and lockout replacement, the items actually in the loose inventory (the
\* list the game manager keeps, and the Player's) together weigh no more
\* than the maximum carry mass.
C14_CarriedMassWithinLimit ==
    /\ MassOf(inventory) <= player_max_carry_mass
    /\ CurrentCarryMass(player) <= max_carry_mass

\* The limit is reached exactly, and a further item has been refused
C14_Witness ==
    /\ MassOf(inventory) = player_max_carry_mass
    /\ response_text = "too heavy"


\* The first entry of the list that the argument names is a portable item
\* whose mass would push the carried mass above the limit; onlyPortable:
\* entries that are not portable are passed over, as retrieve does
TooHeavyIn(list, args, onlyPortable) ==
    \E i \in 1 .. Len(list) :
        /\ Matches(list[i], args)
        /\ ItemType(list[i]) = "portable"
        /\ \A j \in 1 .. i - 1 :
              ~(Matches(list[j], args) /\ (onlyPortable => ItemType(list[j]) = "portable"))
        /\ player_carry_mass + ItemMass(list[i]) > player_max_carry_mass

\* C15: a take, or a retrieve, of an item whose mass would push the carried
\* mass above the limit returns the failure response and leaves the room's
\* object list, the cargo lists, the inventory and the carried mass unchanged.
C15_TooHeavyChangesNothing ==
    [][\A args \in InvItemArgs \ {NoWords} :
          (\/ /\ TooHeavyIn(objects[current_location], args, FALSE)
              /\ Process(<<"take">> \o args)
           \/ /\ current_location \in StorageRooms
              /\ TooHeavyIn(cargo_by_room[current_location], args, TRUE)
              /\ Process(<<"retrieve">> \o args))
             => /\ response_text' = "too heavy"
                /\ UNCHANGED <<objects, instance, cargo_by_room, inventory,
                               player_carry_mass>>]_vars

\* A too heavy item has been refused and still lies where it lay
C15_Witness ==
    /\ response_text = "too heavy"
    /\ inventory # << >>
    /\ \/ TooHeavyIn(objects[current_location], <<"crate">>, FALSE)
       \/ /\ current_location \in StorageRooms
          /\ TooHeavyIn(cargo_by_room[current_location], <<"crate">>, TRUE)


\* C16: after any sequence of add_item and remove_item calls the masses of
\* the items in a StorageUnit's contents sum to no more than capacity_mass;
\* an add_item that would exceed the capacity returns failure and leaves
\* contents and current_mass unchanged, and one that stays within it, reaching
\* the capacity exactly included, succeeds and appends the item.
C16_StorageWithinCapacity ==
    /\ [](MassOf(unit.contents) <= unit.capacity_mass)
    /\ [][\A item \in UnitItems :
             AddItemOutside(item) =>
                IF MassOf(unit.contents) + ItemMass(item) > unit.capacity_mass
                THEN response_text' = "not added" /\ unit' = unit
                ELSE /\ response_text' = "added"
                     /\ unit'.contents = Append(unit.contents, item)
                     /\ MassOf(unit'.contents) = unit'.current_mass]_vars

\* A unit of capacity 5.0 holding only the 4.0 jumpsuit has refused an item
\* (the 2.0 flask or the 5.0 crate)
C16_Witness ==
    /\ unit.capacity_mass = 50
    /\ unit.contents = <<"jumpsuit">>
    /\ unit.current_mass = 40
    /\ response_text = "not added"


\* The item the last command took: the answer was that of a successful take
\* and the item was appended to the inventory
JustTook(item) ==
    /\ response_text = "taken"
    /\ inventory # << >>
    /\ item = inventory[Len(inventory)]

\* C18: take X followed by drop X in the same room leaves X in the room's
\* object list as the very instance that lay there (same identifier, same
\* instance), leaves the inventory without X and restores the carried mass
\* to its value before the take.
C18_TakeThenDropRestores ==
    [][\A item \in Items, args \in InvItemArgs \ {NoWords} :
          (JustTook(item) /\ Matches(item, args) /\ Process(<<"drop">> \o args)) =>
             LET here == objects'[current_location] IN
             /\ \E i \in 1 .. Len(here) :
                   here[i] = item /\ instance'[current_location][i] = "loaded"
             /\ ~InList(item, inventory')
             /\ player_carry_mass' = player_carry_mass - ItemMass(item)]_vars


\* Everything but the text picked at random for the message
Outcome ==
    <<current_location, inventory, player_carry_mass, objects, locked, security_level,
      is_broken, repair_progress, scheduled, last_panel, pin_attempts, pin_max_attempts,
      pending_pin_callback, response_text, raised, cargo_by_room, instance>>

\* C19: two runs given the same commands and the same PIN lines from the
\* same state reach the same door flags, panel flags, location, inventory
\* and room contents, whatever texts random.choice picks: whenever a line or
\* a PIN line is handled, no other handling of that line from the same state
\* ends in a different state, the picked text aside.
C19_RandomnessOnlyInMessage ==
    [][\A outcome \in {Outcome'} :
          /\ \A line \in RandomLines :
                Process(line) => ~ENABLED (Process(line) /\ Outcome' # outcome)
          /\ \A pin \in PinLines :
                HandlePinInput(pin) => ~ENABLED (HandlePinInput(pin) /\ Outcome' # outcome)]_vars

\* The third of its texts has been picked at random for a take that
\* succeeded, in a run in which the PIN line was accepted
C19_Witness ==
    /\ response_text = "taken"
    /\ flavour = 3
    /\ ~locked["d1"]
    /\ ~PinPending
    /\ InList("id_card_high_sec", inventory)

\* C20: every line handed to process is answered with a response and every
\* continuation runs to completion: no handler, credential check or
\* continuation raises an exception to its caller, whatever the verb, the
\* target, the place of the examined item or the security level of the
\* door.
C20_NothingRaises ==
    ~raised

BrokenHere == {p \in DOMAIN is_broken : p[2] = current_location /\ is_broken[p]}

\* The panels a step repairs
Repaired == {p \in DOMAIN is_broken : is_broken[p] /\ ~is_broken'[p]}

\* The target names the exit of the current room that the panel's door
\* secures, by the rules of movement (key, direction, shortcut)
NamesExitOf(target, panel) ==
    LET e == MoveExit(current_location, target)
    IN  e # 0 /\ Exits(current_location)[e].door = panel[1]

\* C22: for the repair command in any room: with no broken panel on the
\* room's side nothing changes and nothing is scheduled; with exactly one
\* broken panel and no argument that panel is repaired; with several broken
\* panels and no argument none is repaired; with an argument only a broken
\* panel whose exit the argument matches is repaired, and an argument that
\* matches no broken panel repairs none and is reported as an error.
C22_RepairChoosesPanel ==
    [][\A args \in RepairArgs :
          HandleRepairDoorPanel(args) =>
              LET named == {p \in BrokenHere : NamesExitOf(args, p)}
              IN  /\ Repaired \subseteq BrokenHere
                  /\ \A p \in Repaired : repair_progress'[p] = FULL_PROGRESS
                  /\ Repaired = {} => UNCHANGED <<is_broken, repair_progress, scheduled>>
                  /\ UNCHANGED <<current_location, inventory, objects, locked, security_level>>
                  /\ BrokenHere = {} => response_text' = "no damaged panels"
                  /\ Cardinality(BrokenHere) = 1 /\ args = NoWords => Repaired = BrokenHere
                  /\ Cardinality(BrokenHere) > 1 /\ args = NoWords =>
                        Repaired = {} /\ response_text' = "which panel"
                  /\ args # NoWords =>
                        /\ Repaired \subseteq named
                        /\ Cardinality(Repaired) <= 1
                        /\ named = {} =>
                              /\ Repaired = {}
                              /\ BrokenHere # {} =>
                                    response_text' = "no damaged panel to that exit"]_vars

\* In the corridor, where both panels were broken, the panel of door d2 has
\* been repaired by name and the panel of door d1 is still broken
C22_Witness ==
    /\ current_location = "corridor"
    /\ response_text = "repairing"
    /\ is_broken[<<"d1", "corridor">>]
    /\ ~is_broken[<<"d2", "corridor">>]
    /\ repair_progress[<<"d2", "corridor">>] = FULL_PROGRESS
    /\ \E i \in 1 .. Len(scheduled) : scheduled[i] = Repair(<<"d2", "corridor">>)

\* A step leaves the schedule alone, adds one continuation at its end, or
\* is the firing of one continuation, which takes that one away
ScheduleKept ==
    \/ scheduled' = scheduled
    \/ \E c \in {Repair(p) : p \in DOMAIN is_broken}
               \cup {Swipe(a, p) : a \in {"lock", "unlock"}, p \in DOMAIN is_broken} :
           scheduled' = Append(scheduled, c)
    \/ \E i \in 1 .. Len(scheduled) : FireDelayed(i) /\ scheduled' = RemoveAt(scheduled, i)

C24_DoorHasTwoPanels ==
    load.loaded =>
        \A i \in 1 .. Len(load.doors) :
            LET door == load.doors[i]
            IN  /\ Cardinality(door.panels) = 2
                /\ {q.side : q \in door.panels} = {door.rooms[1], door.rooms[2]}

\* C25: a security panel is damaged as a consequence of PIN lockout: when
\* the last attempt of a challenge is used up by a wrong PIN line, the broken
\* flag of the panel used for the challenge is true afterwards.
C25_LockoutDamagesPanel ==
    [][\A pin \in PinLines :
          (/\ HandlePinInput(pin)
           /\ WrongPin(pin)
           /\ pin_attempts + 1 >= pin_max_attempts)
              => is_broken'[last_panel]]_vars

\* C26: open leaves the storage unit open and close leaves it closed,
\* neither touches the contents, and an open given to a unit that is already
\* open (no close since the last open) reports "already open" and changes
\* nothing; symmetrically a close given to a closed unit changes nothing.
C26_OpenTwice ==
    [][\A line \in OpenLines :
          Process(line) =>
              LET opening == (line[1] = "open")
              IN  /\ unit'.is_open = opening
                  /\ unit'.contents = unit.contents
                  /\ unit.is_open = opening =>
                        /\ unit' = unit
                        /\ opening => response_text' = "already open"]_vars

\* The exits of the current room that a door secures
SecuredExits ==
    {i \in 1 .. Len(Exits(current_location)) : Exits(current_location)[i].door # NoDoor}

\* The one secured exit of the current room, when there is exactly one
TheSecuredExit == Exits(current_location)[Min(SecuredExits)]

\* With exactly one secured exit, a lock or unlock without argument given
\* to the door handler ends as the same action naming that exit ends
C27_DoorHandlerSelects ==
    \A action \in {"lock", "unlock"}, outcome \in {Outcome'} :
        HandleDoorAction(action, NoWords) /\ Cardinality(SecuredExits) = 1 =>
            ENABLED (HandleDoorAction(action, TheSecuredExit.label) /\ Outcome' = outcome)

\* With exactly one secured exit, a lock or unlock line without argument
\* ends as the same line naming that exit ends
C27_CommandSelects ==
    \A action \in {"lock", "unlock"}, outcome \in {Outcome'} :
        Process(<<action>>) /\ Cardinality(SecuredExits) = 1 =>
            ENABLED (Process(<<action>> \o TheSecuredExit.key) /\ Outcome' = outcome)

\* With no secured exit or several, a lock or unlock without argument
\* changes no state and schedules nothing
C27_NoneSelected ==
    \A action \in {"lock", "unlock"} :
        (/\ HandleDoorAction(action, NoWords) \/ Process(<<action>>)
         /\ Cardinality(SecuredExits) # 1)
            => UNCHANGED <<current_location, inventory, player_carry_mass, objects, locked,
                           security_level, is_broken, scheduled, last_panel, pin_attempts,
                           pin_max_attempts, pending_pin_callback, raised>>

\* C27: for lock and unlock with an empty argument: if exactly one exit of
\* the current room is secured by a door, that door is targeted and the
\* access sequence proceeds for it; with zero or with several secured exits
\* no door is targeted, no state changes and nothing is scheduled.
C27_EmptyArgumentSelectsDoor ==
    [][C27_DoorHandlerSelects /\ C27_CommandSelects /\ C27_NoneSelected]_vars

\* The doors load_from_json makes of the ship's connection records
WorldDoors == LoadDoors(<< >>, WorldConnections)

\* C28: a door is one shared lockable connection: the exit from room A to B
\* carries a door exactly when the exit from B to A carries the same door,
\* and whatever locks and unlocks were done from either side, the locked
\* state that gates movement from A to B is the one that gates movement
\* from B to A, the locked flag of that door.
C28_DoorIsShared ==
    \A a \in Rooms : \A i \in 1 .. Len(Exits(a)) :
        LET b == Exits(a)[i].target
            d == ExitDoor(WorldDoors, a, i)
            back == FirstExitTo(b, a)
        IN  /\ Exits(a)[i].door = d
            /\ d # NoDoor =>
                  /\ back # 0
                  /\ ExitDoor(WorldDoors, b, back) = d
                  /\ MoveBlocked(a, b) = locked[d]
                  /\ MoveBlocked(b, a) = locked[d]
            /\ d = NoDoor => ~MoveBlocked(a, b) /\ ~MoveBlocked(b, a)
            /\ MoveBlocked(a, b) = MoveBlocked(b, a)

\* Door d1 was last swiped from its corridor side and is locked, and the
\* player in the corridor has just been refused the way to the quarters
C28_Witness ==
    /\ current_location = "corridor"
    /\ last_panel = <<"d1", "corridor">>
    /\ locked["d1"]
    /\ response_text = "door locked"

\* C29: while a PIN challenge is pending, whatever commands are typed and
\* continuations fire, its attempt counter is never reset and its armed
\* continuation never replaced before the challenge ends: the counter only
\* goes up by one per wrong line and stays below three, so a swipe
\* continuation firing during the challenge gives no further wrong lines.
C29_ChallengeNotRestarted ==
    /\ [](PinPending => pin_max_attempts = 3 /\ pin_attempts \in 0 .. 2)
    /\ [][(PinPending /\ pending_pin_callback' # NoCallback) =>
             /\ pending_pin_callback' = pending_pin_callback
             /\ pin_max_attempts' = pin_max_attempts
             /\ pin_attempts' \in {pin_attempts, pin_attempts + 1}]_vars

\* A swipe continuation for the challenged door has just fired after two
\* wrong lines, and the challenge is still at two
C29_Witness ==
    /\ PinPending
    /\ pin_attempts = 2
    /\ response_text = "swipe denied"
    /\ last_panel[1] = pending_pin_callback.door

\* C30: a PIN line that locks or unlocks a door was compared against the
\* panel and the PIN of that same door, whatever swipe continuations have
\* fired during the challenge.
C30_PinOfTheSameDoor ==
    [][\A pin \in PinLines :
          (HandlePinInput(pin) /\ locked' # locked) =>
              /\ last_panel[1] = pending_pin_callback.door
              /\ pin = DoorPin(pending_pin_callback.door)]_vars

\* The card check of the panel's level accepts what the player holds now
SwipeGranted(c) ==
    LET level == security_level[c.panel[1]] IN
    /\ ~is_broken[c.panel]
    /\ \/ level = LOW_SEC_KEYCARD_ONLY
          /\ (Holds("id_card_low_sec") \/ Holds("id_card_high_sec"))
       \/ level = HIGH_SEC_KEYCARD_ONLY /\ Holds("id_card_high_sec")

C31_WitnessDropped ==
    /\ response_text = "swipe denied"
    /\ inventory = << >>
    /\ last_panel # NoPanel
    /\ ~is_broken[last_panel]

\* C32: the repair command's target matching accepts an exit exactly when
\* the matching of movement (key, direction, shortcut) resolves the same
\* words to that exit: a repair command given a target repairs a broken
\* panel of the room's side exactly when movement resolves the target to
\* the exit that panel's door secures.
C32_RepairMatchesAsMovement ==
    [][\A args \in RepairArgs \ {NoWords} :
          HandleRepairDoorPanel(args) =>
              \A p \in BrokenHere : (p \in Repaired) <=> NamesExitOf(args, p)]_vars

\* The exit of the room a destination names when all keys are tried first,
\* then all compass directions, then all shortcuts (0: none)
ExitByRank(room, dest) ==
    LET exits == Exits(room)
        byKey == {i \in 1 .. Len(exits) : exits[i].key = dest}
        byDirection == {i \in 1 .. Len(exits) : exits[i].direction = dest}
        byShortcut == {i \in 1 .. Len(exits) : dest \in exits[i].shortcuts}
    IN  IF dest = NoWords THEN 0
        ELSE IF byKey # {} THEN Min(byKey)
        ELSE IF byDirection # {} THEN Min(byDirection)
        ELSE IF byShortcut # {} THEN Min(byShortcut)
        ELSE 0

\* C33: movement matches the normalized destination against the exits of
\* the current room in the order key, compass direction, shortcut: the
\* player arrives where the exit of the best rank leads (an exit matched by
\* direction before one matched by shortcut, whatever their order), and a
\* destination matching no exit leaves the location unchanged.
C33_MoveMatchOrder ==
    [][\A line \in MoveLines :
          Process(line) =>
              LET e == ExitByRank(current_location, StripPrefix(Tail(line)))
              IN  current_location' = IF e = 0 THEN current_location
                                      ELSE Exits(current_location)[e].target]_vars

\* The exit of the room a destination names when the keys are tried first
\* and then, exit by exit in the room's order, the compass direction and
\* the shortcuts (0: none)
ExitByKeyThenOrder(room, dest) ==
    LET exits == Exits(room)
        Aliases(i) == (IF exits[i].direction = NoWords THEN {} ELSE {exits[i].direction})
                          \cup exits[i].shortcuts
        named == {i \in 1 .. Len(exits) : dest \in Aliases(i)}
    IN  IF dest = NoWords THEN 0
        ELSE IF \E i \in 1 .. Len(exits) : exits[i].key = dest
             THEN CHOOSE i \in 1 .. Len(exits) : exits[i].key = dest
        ELSE IF named = {} THEN 0
        ELSE CHOOSE i \in named : \A j \in named : i <= j

\* C33 as the code has it: an exit whose key is the destination is chosen
\* first; otherwise the first exit, in the room's order, whose compass
\* direction or one of whose shortcuts is the destination; a destination
\* matching no exit leaves the player's location unchanged.
C33_MoveMatchPerExit ==
    [][\A line \in MoveLines :
          Process(line) =>
              LET e == ExitByKeyThenOrder(current_location, StripPrefix(Tail(line)))
              IN  /\ current_location' = IF e = 0 THEN current_location
                                         ELSE Exits(current_location)[e].target
                  /\ ExitByRank(current_location, StripPrefix(Tail(line))) = 0
                        => current_location' = current_location]_vars

\* "fore" is a shortcut of the first exit and the compass direction of the
\* second, no other line names either exit, and the player has gone where
\* the first exit leads
C33_Witness ==
    /\ room_exits[1].key = <<"hatch">> /\ room_exits[2].key = <<"ladder">>
    /\ room_exits[1].direction = NoWords /\ room_exits[1].shortcuts = {<<"fore">>}
    /\ room_exits[2].direction = <<"fore">> /\ room_exits[2].shortcuts = {}
    /\ room_exits[1].target = "corridor"
    /\ current_location = "corridor"
    /\ response_text = "moved"

\* C34: after every take, drop, store, retrieve and lockout card
\* replacement, the tracked player_carry_mass is the sum of the masses of
\* the items in the player's inventory list.
C34_CarryMassIsInventoryMass == player_carry_mass = MassOf(inventory)

\* An unequip of the slot cannot succeed: the slot is invalid or empty, or
\* its item does not fit in the loose inventory
UnequipMustFail(slot) ==
    \/ slot \notin Slots
    \/ player.equipped[slot] = NoItem
    \/ MassOf(player.inventory) + ItemMass(player.equipped[slot]) > max_carry_mass

PanelsChanged ==
    {p \in DOMAIN is_broken :
        is_broken'[p] # is_broken[p] \/ repair_progress'[p] # repair_progress[p]}

\* C36: a repair changes only the broken flag and the repair progress of
\* one panel, a broken one on the current room's side: the panel on the
\* other side of that door, the panels of the other doors, every locked
\* flag, the player's location and the inventory are unchanged, when the
\* command returns and when the repair continuation fires.
C36_RepairFrame ==
    /\ [][\A args \in RepairArgs :
             HandleRepairDoorPanel(args) =>
                 /\ Cardinality(PanelsChanged) <= 1
                 /\ \A p \in PanelsChanged : p[2] = current_location /\ is_broken[p]
                 /\ UNCHANGED <<locked, security_level, current_location, inventory,
                                player_carry_mass>>]_vars
    /\ [][\A i \in 1 .. MaxScheduled + MaxRepairs :
             (FireDelayed(i) /\ scheduled[i].kind = "repair") =>
                 /\ PanelsChanged = {}
                 /\ UNCHANGED <<locked, security_level, current_location, inventory,
                                player_carry_mass>>]_vars

\* The corridor panel of door d1 has been repaired and the confirmation
\* shown, while the quarters panel of d1 and the panel of d2 are still broken
C36_Witness ==
    /\ response_text = "repaired"
    /\ ~is_broken[<<"d1", "corridor">>] /\ repair_progress[<<"d1", "corridor">>] = FULL_PROGRESS
    /\ is_broken[<<"d1", "quarters">>] /\ repair_progress[<<"d1", "quarters">>] = 0
    /\ is_broken[<<"d2", "corridor">>]

\* C37: at every security level, with whatever the player holds, at a panel
\* that is not broken, attempt_lock and attempt_unlock called without a PIN
\* both return a (success, message) pair and agree on success.
C37_LockUnlockAgree ==
    \A p \in DOMAIN is_broken :
        ~is_broken[p] =>
            LET lock == attempt_lock(p, inventory)
                unlock == attempt_unlock(p, inventory, NoPinInput)
            IN  /\ lock.returned
                /\ unlock.returned
                /\ lock.success = unlock.success

\* C37 at the two keycard-only levels, where it holds
C37_AgreeAtKeycardLevels ==
    \A p \in DOMAIN is_broken :
        (~is_broken[p] /\ security_level[p[1]] \in {LOW_SEC_KEYCARD_ONLY, HIGH_SEC_KEYCARD_ONLY}) =>
            LET lock == attempt_lock(p, inventory)
                unlock == attempt_unlock(p, inventory, NoPinInput)
            IN  lock.returned /\ unlock.returned /\ lock.success = unlock.success

\* C38: after any sequence of damage, repair(amount) with amount >= 0 and
\* repair commands, every panel's repair_progress is within [0, 1] and a
\* panel whose progress is 1 is not broken; repair(amount) clears the broken
\* flag exactly when the accumulated progress reaches 1.
C38_RepairProgress ==
    /\ [](\A p \in DOMAIN is_broken :
            /\ repair_progress[p] \in 0 .. FULL_PROGRESS
            /\ repair_progress[p] = FULL_PROGRESS => ~is_broken[p])
    /\ [][\A p \in DOMAIN is_broken, amount \in RepairAmounts :
             PanelRepair(p, amount) =>
                 is_broken'[p] = (is_broken[p] /\ repair_progress[p] + amount < FULL_PROGRESS)]_vars

\* The quarters panel was damaged and repaired in full, and the corridor
\* panel, damaged later, is three quarters repaired and still broken
C38_Witness ==
    /\ ~is_broken[<<"d1", "quarters">>] /\ repair_progress[<<"d1", "quarters">>] = FULL_PROGRESS
    /\ is_broken[<<"d2", "corridor">>] /\ repair_progress[<<"d2", "corridor">>] = 3

\* The date m minutes after a date of the 360-day calendar, by carrying
\* from the minutes to the hours, the days, the months and the years
DateLater(date, m) ==
    LET minute == date[5] + m
        hour == date[4] + (minute \div 60)
        day == (date[3] - 1) + (hour \div 24)
        month == (date[2] - 1) + (day \div 30)
    IN  <<date[1] + (month \div 12), (month % 12) + 1, (day % 30) + 1, hour % 24, minute % 60>>

\* C39: for every date with month 1..12, day 1..30, hour 0..23, minute 0..59
\* and year >= 0, _minutes_to_date(_date_to_minutes(date)) is the date, and
\* after advance(m) the conversion gives the date m minutes later in the
\* 360-day calendar, with month and day within 1..12 and 1..30.
C39_DateRoundTrip ==
    chrono.set =>
        LET now == minutes_to_date(chrono.total_minutes) IN
        /\ minutes_to_date(date_to_minutes(chrono.start)) = chrono.start
        /\ now = DateLater(chrono.start, chrono.advanced)
        /\ now[2] \in 1 .. 12 /\ now[3] \in 1 .. 30
        /\ now[4] \in 0 .. 23 /\ now[5] \in 0 .. 59
        /\ date_to_minutes(now) = chrono.total_minutes

\* One minute after the last minute of the launch year the chronometer
\* shows the first minute of the next year
C39_Witness ==
    /\ chrono.set
    /\ chrono.start = <<2276, 12, 30, 23, 59>>
    /\ chrono.advanced = 1
    /\ minutes_to_date(chrono.total_minutes) = <<2277, 1, 1, 0, 0>>

====
